---- MODULE Spec2Model ----
(***************************************************************************)
(* Doodlify: the event-processing lifecycle of the classic Orchestrator,   *)
(* the progress ledger kept by ConfigManager and the checkout handled by   *)
(* GitAgent.  One command (process, push, restore, clear, analyze) runs at *)
(* a time; a command in flight may be killed between two of its steps.     *)
(***************************************************************************)
EXTENDS Integers, Sequences, FiniteSets, TLC

(***************************************************************************)
(* Bounds of the model.                                                    *)
(***************************************************************************)
\* file contents are the number of transforms applied to the original bytes
MaxGen == 2
\* calendar days the run may happen on
MaxDay == 2
\* commands (CLI invocations) started in one behaviour
MaxCmds == 2
\* capability failures and kills the environment injects in one behaviour
MaxFaults == 1

(***************************************************************************)
(* Configuration (models.py: Config, EventConfig).                         *)
(***************************************************************************)
\* config.events, in declaration order
Events == <<"e1", "e2">>

EventIds == {Events[i] : i \in 1..Len(Events)}

\* EventConfig.startDate / endDate as day numbers
StartDate == [e \in EventIds |-> 1]

EndDate == [e \in EventIds |-> IF e = "e1" THEN 2 ELSE 1]

\* config.project.targetBranch or "main"
BaseBranch == "main"

Branches == {BaseBranch} \cup EventIds

\* branch_name = f"{branch_prefix}{event.branch}"
BranchName(e) == e

(***************************************************************************)
(* Paths.  A file name is the sequence of its dot-separated components,    *)
(* so that pathlib's stem/suffix arithmetic can be computed.               *)
(***************************************************************************)
FA == <<"hero", "png">>

FB == <<"messages", "json">>

\* an image referenced by the code base but absent from the repository
FC == <<"logo", "png">>

Files == {FA, FB, FC}

\* AnalysisResult.image_files / text_files returned by analyze_codebase
AnalysisImages == <<FA, FC>>

AnalysisTexts == <<FB>>

\* pathlib: Path.suffix is empty for a name without a dot
HasSuffix(p) == Len(p) > 1

\* GitAgent.get_backup_path: <name>.original.<ext>, or <name>.original
GetBackupPath(p) ==
    IF HasSuffix(p)
    THEN SubSeq(p, 1, Len(p) - 1) \o <<"original", p[Len(p)]>>
    ELSE p \o <<"original">>

\* full_path.with_suffix(full_path.suffix + '.original'): <name>.<ext>.original
LegacyBackupPath(p) == p \o <<"original">>

AllPaths == Files \cup {GetBackupPath(f) : f \in Files}
                  \cup {LegacyBackupPath(f) : f \in Files}

IsBackupPath(p) == \E f \in Files : p = GetBackupPath(f) \/ p = LegacyBackupPath(f)

\* extension tests of _process_event for an explicit allow-list
IsImagePath(p) == HasSuffix(p) /\ p[Len(p)] \in {"png", "jpg", "jpeg", "webp"}

IsTextPath(p) == HasSuffix(p) /\ p[Len(p)] = "json"

(***************************************************************************)
(* File contents.                                                          *)
(***************************************************************************)
\* Path.exists() is false
NoFile == -1

\* the original bytes O of a repository file
Original == 0

Contents == 0..MaxGen

\* the image-transform / text-adaptation capability writes new bytes in place
Transform(c) == c + 1

Trees == [AllPaths -> Contents \cup {NoFile}]

(***************************************************************************)
(* Sequence helpers.                                                       *)
(***************************************************************************)
Range(s) == {s[i] : i \in 1..Len(s)}

RECURSIVE SelectSeq2(_, _)
\* [x for x in s if x in keep], order preserved
SelectSeq2(s, keep) ==
    IF s = <<>> THEN <<>>
    ELSE IF Head(s) \in keep
         THEN <<Head(s)>> \o SelectSeq2(Tail(s), keep)
         ELSE SelectSeq2(Tail(s), keep)

(***************************************************************************)
(* The progress ledger (models.py: EventProgress, EventLock, ConfigLock).  *)
(***************************************************************************)
NoStatus == [status |-> "none", details |-> "None"]

FileStatus(s) == [status |-> s, details |-> "None"]

\* a progress record that starts out marked as pushed
NewProgressPushed ==
    [status |-> "pending", analyzed |-> FALSE, processed |-> FALSE,
     pushed |-> TRUE, branch_created |-> FALSE, pr_created |-> FALSE,
     pr_url |-> "None", commit_sha |-> "None", modified_files |-> {},
     error |-> "None", file_status |-> [f \in Files |-> NoStatus]]

\* EventProgress(status="pending") with the field defaults
NewProgress ==
    [status |-> "pending", analyzed |-> FALSE, processed |-> FALSE,
     pushed |-> FALSE, branch_created |-> FALSE, pr_created |-> FALSE,
     pr_url |-> "None", commit_sha |-> "None", modified_files |-> {},
     error |-> "None", file_status |-> [f \in Files |-> NoStatus]]

\* EventLock(**event, progress=..., analysis=None, last_executed=None)
NewEventLock == [progress |-> NewProgress, analysis |-> FALSE, last_executed |-> FALSE]

\* ConfigManager._create_new_lock
CreateNewLock == [events |-> [e \in EventIds |-> NewEventLock], global_analysis |-> FALSE]

VARIABLES
    today,      \* datetime.now(tz).date()
    wt,         \* working tree of the checkout: path -> bytes or NoFile
    heads,      \* committed tree at the tip of every branch
    branches,   \* repo.heads: the local branches that exist
    cur,        \* repo.active_branch
    lock,       \* the persisted ledger (ConfigLock)
    pc,         \* position of the command in flight
    queue,      \* events_to_process / events_to_push still to handle
    optOnly,    \* process(only=...)
    optForce,   \* process(force=...)
    todo,       \* candidate files of the current event still to handle
    modified,   \* modified_files of the current _process_event call
    nCmds,      \* number of commands started so far
    nFaults,    \* number of failures and kills injected so far
    step,       \* history: what the last step of a command did
    thisRun,    \* history: the command in flight, or the last one
    prevRun,    \* history: the command before thisRun
    prevLock,   \* history: the ledger when thisRun started
    probe       \* a library call made outside the commands: inputs and result

vars == <<today, wt, heads, branches, cur, lock, pc, queue, optOnly, optForce,
          todo, modified, nCmds, nFaults, step, thisRun, prevRun, prevLock,
          probe>>

\* the variables of the commands
cmdVars == <<today, wt, heads, branches, cur, lock, pc, queue, optOnly, optForce,
             todo, modified, nCmds, nFaults, step, thisRun, prevRun, prevLock>>


(***************************************************************************)
(* ConfigManager: ledger queries and updates.  Every update persists, so   *)
(* the ledger variable is the persisted document.                          *)
(***************************************************************************)
\* ConfigManager.update_event_progress: setattr for the known fields, save
UpdateEventProgress(lk, e, patch) ==
    [lk EXCEPT !.events[e].progress =
        [k \in DOMAIN @ |-> IF k \in DOMAIN patch THEN patch[k] ELSE @[k]]]

\* ConfigManager.update_event_analysis
UpdateEventAnalysis(lk, e) ==
    [lk EXCEPT !.events[e].analysis = TRUE, !.events[e].progress.analyzed = TRUE]

\* a date filter that leaves out the last day of the event
IsActiveEndExclusive(start, end, day) == start <= day /\ day < end

\* get_active_events: start_date <= today <= end_date
IsActive(start, end, day) == start <= day /\ day <= end

\* the loop of get_active_events over the ledger's events
ActiveEvents(evs, start, end, day) ==
    SelectSeq2(evs, {e \in Range(evs) : IsActive(start[e], end[e], day)})

\* the filter of get_unprocessed_active_events
Unprocessed(evs, lk) ==
    SelectSeq2(evs, {e \in Range(evs) : ~lk.events[e].progress.processed})

\* ConfigManager.get_active_events: start_date <= today <= end_date
GetActiveEvents(lk, day) == ActiveEvents(Events, StartDate, EndDate, day)

\* ConfigManager.get_unprocessed_active_events
GetUnprocessedActiveEvents(lk, day) == Unprocessed(GetActiveEvents(lk, day), lk)

(***************************************************************************)
(* GitAgent: the checkout.                                                 *)
(***************************************************************************)
\* repo.is_dirty(untracked_files=True) or bool(repo.untracked_files)
IsDirty(tree, head) == tree # head

\* git stash apply: re-applies the stashed changes, refusing on a conflict
StashApplies(target, work, base) ==
    \A p \in AllPaths : work[p] # base[p] => target[p] = base[p]

StashApply(target, work, base) ==
    [p \in AllPaths |-> IF work[p] # base[p] THEN work[p] ELSE target[p]]

\* GitAgent.find_file in a repository whose files sit at the repository root:
\* every candidate location is <repo>/<normalized>
FindFile(p) == p

\* GitAgent.commit_changes: index.add each listed file, commit the index
CommitTree(head, tree, files) ==
    [p \in AllPaths |-> IF p \in files THEN tree[p] ELSE head[p]]

(***************************************************************************)
(* Orchestrator helpers.                                                   *)
(***************************************************************************)
NoEvent == "none"

\* the process invocations tried: (--event-id, --only, --force)
ProcessArgs ==
    {<<NoEvent, <<<<>>, FALSE>>>>} \cup
    (EventIds \X {<<<<>>, FALSE>>, <<<<FA>>, FALSE>>, <<<<>>, TRUE>>})

\* _process_event: the candidate files, image pass first, then text pass
Candidates(only) ==
    IF only # <<>>
    THEN SelectSeq2(SelectSeq(only, IsImagePath), Range(only))
            \o SelectSeq2(SelectSeq(only, IsTextPath), Range(only))
    ELSE AnalysisImages \o AnalysisTexts

\* the skip test of _process_images / _process_texts
BackupFull(p) == LegacyBackupPath(p)

SkipsAsProcessed(tree, p, force) == tree[BackupFull(p)] # NoFile /\ ~force

\* Orchestrator.process: events selected for this invocation
EventsToProcess(lk, day, eid) ==
    IF eid # NoEvent
    THEN SelectSeq2(Events, {eid})
    ELSE GetUnprocessedActiveEvents(lk, day)

\* a loop that goes on with the remaining events after a failed one
AfterFailedEventContinues(q) == q

\* Orchestrator.process: a failed event ends the loop (return False)
AfterFailedEvent(q) == <<>>

\* a selection that forgets the processed flag
EventsToPushAnyUnpushed(lk) ==
    SelectSeq2(Events, {e \in EventIds : ~lk.events[e].progress.pushed})

\* Orchestrator.push: events that are processed but not pushed
EventsToPush(lk) ==
    SelectSeq2(Events, {e \in EventIds : lk.events[e].progress.processed
                                        /\ ~lk.events[e].progress.pushed})

\* GitHubAgent.run: return {"messages": []}
GitHubAgentRun == <<>>

\* _push_event: pr_url from the pr_number parsed out of the last message
PrUrl(prNumber) == IF prNumber # 0 THEN "url" ELSE "Unknown"


(***************************************************************************)
(* History records.                                                        *)
(***************************************************************************)
NoStep == [kind |-> "none"]

NoRun == [cmd |-> "none", state |-> "returned"]

\* a command that has just been started
NewRun(cmd, eid, evs, only, force) ==
    [cmd |-> cmd, eid |-> eid, evs |-> evs, only |-> only, force |-> force,
     attempted |-> <<>>,    \* events handed to _process_event
     transformed |-> {},    \* <<event, file>> given to the transform capability
     backed |-> {},         \* <<event, file>> whose backup was written
     inputs |-> {},         \* <<event, file, bytes>> read by the transform
     commits |-> {},        \* events for which commit_changes was called
     pushes |-> <<>>,       \* events whose branch was pushed
     prs |-> <<>>,          \* events for which a pull request was requested
     faults |-> FALSE,      \* a capability failed during the command
     state |-> "running",   \* running, returned or killed
     ret |-> TRUE,          \* the command's return value
     left |-> <<>>]         \* candidates not yet handled when killed

Ended(r, ok) == [r EXCEPT !.state = "returned", !.ret = ok]

(***************************************************************************)
(* Initial state: a fresh clone on the base branch, no ledger yet          *)
(* (load_lock creates it from the configuration).                          *)
(***************************************************************************)
\* the committed tree of the base branch: FA and FB exist, FC does not;
\* FB carries a backup written under the legacy naming scheme
BaseTree ==
    [p \in AllPaths |->
        IF p \in {FA, FB, LegacyBackupPath(FB)} THEN Original ELSE NoFile]

Fresh ==
    /\ today \in 1..MaxDay
    /\ heads = [b \in Branches |-> BaseTree]
    /\ wt = BaseTree
    /\ branches = {BaseBranch}
    /\ cur = BaseBranch
    /\ lock = CreateNewLock
    /\ pc = "idle"
    /\ queue = <<>>
    /\ optOnly = <<>>
    /\ optForce = FALSE
    /\ todo = <<>>
    /\ modified = {}
    /\ nCmds = 0
    /\ nFaults = 0
    /\ step = NoStep
    /\ thisRun = NoRun
    /\ prevRun = NoRun
    /\ prevLock = CreateNewLock

\* no library call is being observed
NoProbe == [fn |-> "none"]

Init ==
    /\ Fresh
    /\ probe = NoProbe

\* the command in flight has returned: its locals are gone
Return ==
    /\ pc' = "idle"
    /\ queue' = <<>>
    /\ optOnly' = <<>>
    /\ optForce' = FALSE
    /\ todo' = <<>>
    /\ modified' = {}

\* the environment makes a capability fail, or kills the process
Fault(injected) ==
    IF injected
    THEN nFaults < MaxFaults /\ nFaults' = nFaults + 1
    ELSE nFaults' = nFaults

\* a new command is started from the shell
StartCommand ==
    /\ pc = "idle"
    /\ nCmds < MaxCmds
    /\ nCmds' = nCmds + 1
    /\ nFaults' = nFaults
    /\ prevRun' = thisRun
    /\ prevLock' = lock

\* GitAgent.clone_or_update on an existing clone: local changes are stashed,
\* the base branch is checked out and fast-forwarded
CloneOrUpdate ==
    /\ wt' = heads[BaseBranch]
    /\ cur' = BaseBranch

(***************************************************************************)
(* process                                                                 *)
(***************************************************************************)
\* Orchestrator.process up to the event loop
ProcessStart(eid, only, force) ==
    /\ StartCommand
    /\ CloneOrUpdate
    /\ LET evs == EventsToProcess(lock, today, eid)
           r == NewRun("process", eid, evs, only, force)
       IN IF evs = <<>>
          THEN /\ Return
               /\ thisRun' = Ended(r, TRUE)
          ELSE /\ pc' = "event"
               /\ queue' = evs
               /\ optOnly' = only
               /\ optForce' = force
               /\ todo' = <<>>
               /\ modified' = {}
               /\ thisRun' = r
    /\ step' = NoStep
    /\ UNCHANGED <<probe, today, heads, branches, lock>>

\* the event loop of Orchestrator.process after _process_event returned
NextEvent(ok, r) ==
    LET rest == IF ok THEN Tail(queue) ELSE AfterFailedEvent(Tail(queue))
        r1 == [r EXCEPT !.ret = @ /\ ok, !.faults = @ \/ ~ok]
    IN IF rest = <<>>
       THEN /\ Return
            /\ thisRun' = [r1 EXCEPT !.state = "returned"]
       ELSE /\ pc' = "event"
            /\ queue' = rest
            /\ todo' = <<>>
            /\ modified' = {}
            /\ thisRun' = r1
            /\ UNCHANGED <<optOnly, optForce>>

\* an except branch that also forgets the files recorded so far
FailedPatchForgets(err) == [status |-> "failed", error |-> err, modified_files |-> {}]

\* the except branch of _process_event: status and the error message, no other field
FailedPatch(err) == [status |-> "failed", error |-> err]

\* an event that is left at pending while it is processed
StartedStatusPending == "pending"

\* _process_event: the status written before anything else is done
StartedStatus == "processing"

\* _process_event up to the per-file passes: status, stash, branch, analysis
ProcessEventBegin(outcome) ==
    /\ pc = "event"
    /\ LET e == Head(queue)
           b == BranchName(e)
           lk1 == UpdateEventProgress(lock, e, [status |-> StartedStatus])
           stashed == IsDirty(wt, heads[cur])
           needAnalysis == /\ optOnly = <<>>
                           /\ ~lock.events[e].analysis
                           /\ ~lock.global_analysis
           r == [thisRun EXCEPT !.attempted = Append(@, e)]
       IN /\ outcome = "analysis_fail" => needAnalysis
          /\ Fault(outcome # "ok")
          /\ IF outcome = "branch_fail"
             THEN \* create_branch raises after the stash was pushed
                  /\ wt' = heads[cur]
                  /\ UNCHANGED <<heads, branches, cur>>
                  /\ lock' = UpdateEventProgress(lk1, e, FailedPatch("BranchError"))
                  /\ NextEvent(FALSE, r)
             ELSE LET hs == IF b \in branches THEN heads
                            ELSE [heads EXCEPT ![b] = heads[BaseBranch]]
                      tree == hs[b]
                      lk2 == UpdateEventProgress(lk1, e, [branch_created |-> TRUE])
                  IN /\ heads' = hs
                     /\ branches' = branches \cup {b}
                     /\ cur' = b
                     /\ wt' = IF stashed /\ StashApplies(tree, wt, heads[cur])
                              THEN StashApply(tree, wt, heads[cur])
                              ELSE tree
                     /\ IF outcome = "analysis_fail"
                        THEN /\ lock' = UpdateEventProgress(lk2, e,
                                  FailedPatch("AnalysisError"))
                             /\ NextEvent(FALSE, r)
                        ELSE /\ lock' = IF needAnalysis
                                        THEN UpdateEventAnalysis(lk2, e)
                                        ELSE lk2
                             /\ pc' = "files"
                             /\ todo' = Candidates(optOnly)
                             /\ modified' = {}
                             /\ thisRun' = r
                             /\ UNCHANGED <<queue, optOnly, optForce>>
    /\ step' = NoStep
    /\ UNCHANGED <<probe, today, nCmds, prevRun, prevLock>>


\* an except branch that records the file as handled and drops the error
FailedFileStatusProcessed(detail) == [status |-> "processed", details |-> "None"]

\* the status entry written by the except branch of the per-file try block
FailedFileStatus(detail) == [status |-> "skipped", details |-> detail]

\* one iteration of the loop of _process_images / _process_texts
ProcessFileStep(outcome) ==
    /\ pc = "files"
    /\ todo # <<>>
    /\ LET e == Head(queue)
           p == Head(todo)
           full == FindFile(p)
           rel == full
           bak == GetBackupPath(rel)
           fs == lock.events[e].progress.file_status
           mods == lock.events[e].progress.modified_files
           filtered == optOnly # <<>> /\ rel \notin Range(optOnly)
           skip == SkipsAsProcessed(wt, full, optForce)
           missing == wt[full] = NoFile
           info == [kind |-> "file", ev |-> e, file |-> rel, force |-> optForce,
                    existed |-> ~missing, newBackup |-> wt[bak] # NoFile,
                    legacyBackup |-> wt[LegacyBackupPath(full)] # NoFile,
                    attempted |-> FALSE, outcome |-> "none", next |-> Tail(todo)]
       IN /\ Fault(outcome # "ok")
          /\ IF filtered
             THEN /\ outcome = "ok"
                  /\ step' = [info EXCEPT !.outcome = "filtered"]
                  /\ UNCHANGED <<wt, lock, modified, thisRun>>
             ELSE IF skip
             THEN /\ outcome = "ok"
                  /\ step' = [info EXCEPT !.outcome = "skip"]
                  /\ lock' = IF fs[rel].status # "processed"
                             THEN UpdateEventProgress(lock, e,
                                     [file_status |-> [fs EXCEPT ![rel] = FileStatus("processed")]])
                             ELSE lock
                  /\ UNCHANGED <<wt, modified, thisRun>>
             ELSE IF missing
             THEN /\ outcome = "ok"
                  /\ step' = [info EXCEPT !.outcome = "missing"]
                  /\ lock' = UpdateEventProgress(lock, e,
                                [file_status |-> [fs EXCEPT ![rel] = FileStatus("missing")]])
                  /\ UNCHANGED <<wt, modified, thisRun>>
             ELSE IF outcome = "backup_fail"
             THEN \* backup_file raises: nothing written
                  /\ step' = [info EXCEPT !.attempted = TRUE, !.outcome = outcome]
                  /\ lock' = UpdateEventProgress(lock, e,
                                [file_status |-> [fs EXCEPT ![rel] = FailedFileStatus("BackupError")]])
                  /\ thisRun' = [thisRun EXCEPT !.faults = TRUE]
                  /\ UNCHANGED <<wt, modified>>
             ELSE IF outcome = "transform_fail"
             THEN \* the backup is written, the capability raises
                  /\ step' = [info EXCEPT !.attempted = TRUE, !.outcome = outcome]
                  /\ wt' = [wt EXCEPT ![bak] = wt[rel]]
                  /\ lock' = UpdateEventProgress(lock, e,
                                [file_status |-> [fs EXCEPT ![rel] = FailedFileStatus("TransformError")]])
                  /\ thisRun' = [thisRun EXCEPT !.faults = TRUE,
                                                !.backed = @ \cup {<<e, rel>>},
                                                !.inputs = @ \cup {<<e, rel, wt[rel]>>},
                                                !.transformed = @ \cup {<<e, rel>>}]
                  /\ UNCHANGED modified
             ELSE /\ outcome = "ok"
                  /\ wt[rel] < MaxGen
                  /\ step' = [info EXCEPT !.attempted = TRUE, !.outcome = outcome]
                  /\ wt' = [wt EXCEPT ![bak] = wt[rel], ![rel] = Transform(wt[rel])]
                  /\ modified' = modified \cup {rel, bak}
                  /\ lock' = UpdateEventProgress(lock, e,
                                [file_status |-> [fs EXCEPT ![rel] = FileStatus("processed")],
                                 modified_files |-> mods \cup {rel, bak}])
                  /\ thisRun' = [thisRun EXCEPT !.backed = @ \cup {<<e, rel>>},
                                                !.inputs = @ \cup {<<e, rel, wt[rel]>>},
                                                !.transformed = @ \cup {<<e, rel>>}]
          /\ todo' = Tail(todo)
    /\ UNCHANGED <<probe, today, heads, branches, cur, pc, queue, optOnly, optForce,
                   nCmds, prevRun, prevLock>>

\* a completion that records no explanatory note
NoFilesModifiedNoteMissing == "None"

\* _process_event: the note recorded when the pass modified no file
NoFilesModifiedNote == "No files were modified"

\* a pass that always goes on to the commit step
NeedsCommitAlways(mod) == TRUE

\* _process_event after the passes: whether a commit is attempted
NeedsCommit(mod) == mod # {}

\* a commit capability that never reports a failure
CommitSucceedsAlways(ok, tree, head) == TRUE

\* GitAgent.commit_changes returns a sha: it did not raise, and the repository
\* was dirty after the files were added (else ValueError "No changes to commit")
CommitSucceeds(ok, tree, head) == ok /\ IsDirty(tree, head)

\* the end of _process_event: commit gating, commit, final ledger update
ProcessEventFinish(commitOk) ==
    /\ pc = "files"
    /\ todo = <<>>
    /\ LET e == Head(queue)
           info == [kind |-> "finish", ev |-> e, modified |-> modified,
                    commitCalled |-> FALSE, commitOk |-> commitOk]
       IN IF ~NeedsCommit(modified)
          THEN /\ commitOk
               /\ Fault(FALSE)
               /\ lock' = UpdateEventProgress(lock, e,
                             [status |-> "completed", processed |-> TRUE,
                              error |-> NoFilesModifiedNote])
               /\ step' = info
               /\ NextEvent(TRUE, thisRun)
               /\ UNCHANGED heads
          ELSE LET r == [thisRun EXCEPT !.commits = @ \cup {e}]
               IN /\ step' = [info EXCEPT !.commitCalled = TRUE]
                  /\ Fault(~commitOk)
                  /\ IF CommitSucceeds(commitOk, wt, heads[cur])
                     THEN /\ heads' = [heads EXCEPT ![cur] = CommitTree(@, wt, modified)]
                          /\ lock' = [UpdateEventProgress(lock, e,
                                        [status |-> "completed", processed |-> TRUE,
                                         commit_sha |-> "sha",
                                         modified_files |-> modified])
                                      EXCEPT !.events[e].last_executed = TRUE]
                          /\ NextEvent(TRUE, r)
                     ELSE /\ lock' = UpdateEventProgress(lock, e,
                                        FailedPatch(IF IsDirty(wt, heads[cur])
                                                    THEN "CommitError"
                                                    ELSE "No changes to commit"))
                          /\ NextEvent(FALSE, r)
                          /\ UNCHANGED heads
    /\ UNCHANGED <<probe, today, wt, branches, cur, nCmds, prevRun, prevLock>>

\* the process running the command is killed
Crash ==
    /\ pc # "idle"
    /\ Fault(TRUE)
    /\ Return
    /\ thisRun' = [thisRun EXCEPT !.state = "killed", !.left = todo]
    /\ step' = NoStep
    /\ UNCHANGED <<probe, today, wt, heads, branches, cur, lock, nCmds, prevRun, prevLock>>


(***************************************************************************)
(* push                                                                    *)
(***************************************************************************)
\* Orchestrator.push up to the event loop
PushStart ==
    /\ StartCommand
    /\ CloneOrUpdate
    /\ LET evs == EventsToPush(lock)
           r == NewRun("push", NoEvent, evs, <<>>, FALSE)
       IN IF evs = <<>>
          THEN /\ Return
               /\ thisRun' = Ended(r, TRUE)
          ELSE /\ pc' = "push"
               /\ queue' = evs
               /\ thisRun' = r
               /\ UNCHANGED <<optOnly, optForce, todo, modified>>
    /\ step' = NoStep
    /\ UNCHANGED <<probe, today, heads, branches, lock>>

\* a push loop that goes on with the remaining events after a failed one
AfterFailedPushContinues(q) == q

\* Orchestrator.push: a failed event ends the loop (return False)
AfterFailedPush(q) == <<>>

\* _push_event for the next event of the loop
PushEventStep(pushOk) ==
    /\ pc = "push"
    /\ LET e == Head(queue)
           resp == GitHubAgentRun
           info == [kind |-> "push", ev |-> e, pushOk |-> pushOk,
                    wasProcessed |-> lock.events[e].progress.processed,
                    wasPushed |-> lock.events[e].progress.pushed,
                    requested |-> pushOk, ok |-> pushOk /\ resp # <<>>]
           r == IF pushOk
                THEN [thisRun EXCEPT !.pushes = Append(@, e), !.prs = Append(@, e)]
                ELSE [thisRun EXCEPT !.faults = TRUE]
           \* pr_response["messages"][-1] raises IndexError on an empty list
           ok == pushOk /\ resp # <<>>
           rest == IF ok THEN Tail(queue) ELSE AfterFailedPush(Tail(queue))
       IN /\ Fault(~pushOk)
          /\ step' = info
          /\ lock' = IF ok
                     THEN UpdateEventProgress(lock, e,
                             [pushed |-> TRUE, pr_created |-> TRUE,
                              pr_url |-> PrUrl(resp[Len(resp)])])
                     ELSE lock
          /\ IF rest = <<>>
             THEN /\ Return
                  /\ thisRun' = Ended(r, thisRun.ret /\ ok)
             ELSE /\ queue' = rest
                  /\ thisRun' = [r EXCEPT !.ret = @ /\ ok]
                  /\ UNCHANGED <<pc, optOnly, optForce, todo, modified>>
    /\ UNCHANGED <<probe, today, wt, heads, branches, cur, nCmds, prevRun, prevLock>>

(***************************************************************************)
(* restore, clear, analyze                                                 *)
(***************************************************************************)
\* the --files lists tried
RestoreChoices == {<<FA>>, <<FA, FB>>}

RECURSIVE RestoreLoop(_, _)
\* the loop of Orchestrator.restore_files over the targets
RestoreLoop(targets, acc) ==
    IF targets = <<>> THEN acc
    ELSE LET rel == Head(targets)
             full == FindFile(rel)
             backupFull == LegacyBackupPath(full)
         IN IF acc.tree[backupFull] = NoFile
            THEN RestoreLoop(Tail(targets), acc)
            ELSE RestoreLoop(Tail(targets),
                    [tree |-> [acc.tree EXCEPT ![full] = acc.tree[backupFull],
                                               ![backupFull] = NoFile],
                     fs |-> [acc.fs EXCEPT ![rel] = FileStatus("pending")],
                     mods |-> acc.mods \ {LegacyBackupPath(rel)},
                     restored |-> acc.restored \cup {rel}])

\* Orchestrator.restore_files
Restore(e, files) ==
    /\ StartCommand
    /\ cur' = BaseBranch
    /\ LET pr == lock.events[e].progress
           out == RestoreLoop(files, [tree |-> heads[BaseBranch], fs |-> pr.file_status,
                                      mods |-> pr.modified_files, restored |-> {}])
       IN /\ wt' = out.tree
          /\ lock' = IF out.restored # {}
                     THEN UpdateEventProgress(lock, e,
                             [file_status |-> out.fs, modified_files |-> out.mods])
                     ELSE lock
          /\ step' = [kind |-> "restore", ev |-> e, files |-> files,
                      restored |-> out.restored]
          /\ thisRun' = Ended(NewRun("restore", e, <<e>>, files, FALSE),
                              out.restored # {})
    /\ UNCHANGED <<probe, today, heads, branches, pc, queue, optOnly, optForce, todo, modified>>

\* ConfigManager.clear_event
ClearEvent(e) ==
    /\ StartCommand
    /\ lock' = [lock EXCEPT !.events[e] = NewEventLock]
    /\ step' = NoStep
    /\ thisRun' = Ended(NewRun("clear", e, <<e>>, <<>>, FALSE), TRUE)
    /\ UNCHANGED <<probe, today, wt, heads, branches, cur, pc, queue, optOnly, optForce,
                   todo, modified>>

\* Orchestrator.analyze: the global analysis is run once and cached
Analyze ==
    /\ StartCommand
    /\ CloneOrUpdate
    /\ lock' = [lock EXCEPT !.global_analysis = TRUE]
    /\ step' = NoStep
    /\ thisRun' = Ended(NewRun("analyze", NoEvent, <<>>, <<>>, FALSE), TRUE)
    /\ UNCHANGED <<probe, today, heads, branches, pc, queue, optOnly, optForce, todo, modified>>

(***************************************************************************)
(* Specification                                                           *)
(***************************************************************************)
Next ==
    \/ \E a \in ProcessArgs : ProcessStart(a[1], a[2][1], a[2][2])
    \/ \E outcome \in {"ok", "branch_fail", "analysis_fail"} : ProcessEventBegin(outcome)
    \/ \E outcome \in {"ok", "backup_fail", "transform_fail"} : ProcessFileStep(outcome)
    \/ \E commitOk \in BOOLEAN : ProcessEventFinish(commitOk)
    \/ Crash
    \/ PushStart
    \/ \E pushOk \in BOOLEAN : PushEventStep(pushOk)
    \/ \E e \in EventIds, files \in RestoreChoices : Restore(e, files)
    \/ \E e \in EventIds : ClearEvent(e)
    \/ Analyze

Spec == Init /\ [][Next]_vars


(***************************************************************************)
(* Properties                                                              *)
(***************************************************************************)
Progress(e) == lock.events[e].progress

\* the files of an event's branch as a checkout of that branch shows them
EventTree(e) == IF cur = BranchName(e) THEN wt ELSE heads[BranchName(e)]

\* thisRun is a fault-free process run that returned
CleanProcess(r) ==
    /\ r.cmd = "process"
    /\ r.state = "returned"
    /\ ~r.faults

\* two process runs in succession on one event, no force, the second by id
TwiceInSuccession ==
    /\ CleanProcess(prevRun)
    /\ CleanProcess(thisRun)
    /\ thisRun.eid # NoEvent
    /\ prevRun.evs = <<thisRun.eid>>
    /\ ~prevRun.force
    /\ ~thisRun.force
    /\ thisRun.only = prevRun.only

\* C1: the second of two process runs in succession on the same event, with
\* force=false and no failing capability, transforms no file, writes no backup
\* and leaves the event's modified_files and file_status as the first run
\* left them.
C1_ProcessTwiceIsIdempotent ==
    TwiceInSuccession =>
        /\ thisRun.transformed = {}
        /\ thisRun.backed = {}
        /\ Progress(thisRun.eid).modified_files
              = prevLock.events[thisRun.eid].progress.modified_files
        /\ Progress(thisRun.eid).file_status
              = prevLock.events[thisRun.eid].progress.file_status


\* C2: with force=false an existing candidate is handed to the backup and
\* transform block exactly when the backup that backup_file writes for it is
\* not on disk; with force=true an existing candidate is always handed over.
C2_SkipTestsTheBackupWritten ==
    (step.kind = "file" /\ step.outcome # "filtered" /\ step.existed) =>
        /\ ~step.force => (step.attempted <=> ~step.newBackup)
        /\ step.force => step.attempted

\* a process run killed in the file loop of one event after it transformed
\* some file and before it handled another, then a fresh run of that event
ResumedAfterKill ==
    /\ prevRun.cmd = "process"
    /\ prevRun.state = "killed"
    /\ ~prevRun.faults
    /\ prevRun.transformed # {}
    /\ prevRun.left # <<>>
    /\ thisRun.cmd = "process"
    /\ thisRun.state = "returned"
    /\ ~thisRun.faults
    /\ thisRun.evs = <<prevRun.attempted[Len(prevRun.attempted)]>>
    /\ ~prevRun.force
    /\ ~thisRun.force
    /\ thisRun.only = prevRun.only

\* C3: a fresh process run of an event whose previous run was killed after
\* file A was transformed and before file B was handled transforms no file the
\* killed run had transformed; A's backup is on disk with the original bytes
\* and A's file_status is processed.
C3_ResumeTransformsOnlyTheRest ==
    ResumedAfterKill =>
        \A x \in prevRun.inputs :
            x[1] = thisRun.evs[1] =>
                /\ <<x[1], x[2]>> \notin thisRun.transformed
                /\ wt[GetBackupPath(x[2])] = x[3]
                /\ Progress(x[1]).file_status[x[2]].status = "processed"

\* C4: right after a successful per-file transform step every path of the
\* event's modified_files that is not a backup has its backup on disk; right
\* after a successful restore of a path its backup is not on disk.
C4_BackupInvariant ==
    /\ (step.kind = "file" /\ step.outcome = "ok") =>
          \A p \in Progress(step.ev).modified_files :
              ~IsBackupPath(p) => wt[GetBackupPath(p)] # NoFile
    /\ step.kind = "restore" =>
          \A f \in step.restored : wt[GetBackupPath(f)] = NoFile

\* a fault-free process run transformed file f of event e, reading bytes c,
\* and restore was invoked next for that event and file
ProcessThenRestore(e, f, c) ==
    /\ CleanProcess(prevRun)
    /\ <<e, f, c>> \in prevRun.inputs
    /\ thisRun.cmd = "restore"
    /\ thisRun.eid = e
    /\ f \in Range(thisRun.only)

\* C5: after process transformed a file with bytes O and restore was then
\* invoked for that event and file, the file holds O again and no backup of
\* it remains.
C5_RestoreRoundTrip ==
    \A e \in EventIds, f \in Files, c \in Contents :
        ProcessThenRestore(e, f, c) =>
            /\ EventTree(e)[f] = c
            /\ EventTree(e)[GetBackupPath(f)] = NoFile

C7_FileFailureIsSkipped ==
    (step.kind = "file" /\ step.outcome \in {"backup_fail", "transform_fail"}) =>
        /\ Progress(step.ev).file_status[step.file].status = "skipped"
        /\ Progress(step.ev).file_status[step.file].details # "None"
        /\ Progress(step.ev).status = "processing"
        /\ pc = "files"
        /\ Head(queue) = step.ev
        /\ todo = step.next

\* C7 witness: a transform failed and another candidate is still to come
C7_Witness ==
    /\ step.kind = "file"
    /\ step.outcome = "transform_fail"
    /\ todo # <<>>

\* C8: an event pass that transformed no file ends with status completed and
\* processed=true, and the commit capability is not invoked for it.
C8_CommitGating ==
    (step.kind = "finish" /\ step.modified = {}) =>
        /\ Progress(step.ev).status = "completed"
        /\ Progress(step.ev).processed
        /\ ~step.commitCalled
        /\ step.ev \notin thisRun.commits

\* C8 witness: a pass over candidates, none of them transformed, has ended
C8_Witness ==
    /\ step.kind = "finish"
    /\ step.modified = {}
    /\ Progress(step.ev).file_status # NewProgress.file_status

C10_PushSuccessIsRecorded ==
    (step.kind = "push" /\ step.pushOk /\ ~step.wasPushed) =>
        /\ Progress(step.ev).pushed
        /\ Progress(step.ev).pr_created
        /\ Progress(step.ev).pr_url # "None"
        /\ thisRun.state = "returned" => thisRun.ret

\* C11: when pushing the branch or requesting the pull request fails for an
\* event, push returns failure at once: no later event is attempted, the
\* failed event keeps pushed=false and the events pushed before it keep
\* pushed=true.
C11_PushIsFailFast ==
    (step.kind = "push" /\ ~step.ok) =>
        /\ pc = "idle"
        /\ thisRun.state = "returned"
        /\ ~thisRun.ret
        /\ ~Progress(step.ev).pushed
        /\ \A i \in 1..Len(thisRun.evs) :
              thisRun.evs[i] = step.ev =>
                  /\ \A j \in 1..(i - 1) : Progress(thisRun.evs[j]).pushed
                  /\ \A j \in (i + 1)..Len(thisRun.evs) :
                        thisRun.evs[j] \notin Range(thisRun.pushes)

\* C11 witness: the first of two selected events failed to push
C11_Witness ==
    /\ step.kind = "push"
    /\ ~step.ok
    /\ Len(thisRun.evs) = 2
    /\ step.ev = thisRun.evs[1]

C13_ProcessedIsExplained ==
    \A e \in EventIds :
        Progress(e).processed =>
            \/ Progress(e).modified_files # {}
            \/ Progress(e).error # "None"

\* C13 witness: an event completed with no modified file, explained by its
\* error field
C13_Witness ==
    \E e \in EventIds :
        /\ Progress(e).processed
        /\ Progress(e).modified_files = {}
        /\ Progress(e).error # "None"

\* a restore that restored a file of a processed event has returned
C13_AfterRestore ==
    /\ step.kind = "restore"
    /\ step.restored # {}
    /\ Progress(step.ev).processed

(***************************************************************************)
(* get_active_events / get_unprocessed_active_events called on ledgers     *)
(* with arbitrary event dates and processed flags.                         *)
(***************************************************************************)
\* the day numbers tried for startDate and endDate: before, within and
\* after the days the run may happen on
Days == 0..(MaxDay + 1)

\* a ledger whose events in P are processed
LedgerWithProcessed(P) ==
    [CreateNewLock EXCEPT !.events =
        [e \in EventIds |-> [@[e] EXCEPT !.progress.processed = (e \in P)]]]

ActiveInit ==
    /\ Fresh
    /\ \E start \in [EventIds -> Days], end \in [EventIds -> Days],
          P \in SUBSET EventIds :
          probe = [fn |-> "active", start |-> start, end |-> end, processed |-> P]

\* the two queries are made on the ledger
ActiveCall ==
    /\ probe.fn = "active"
    /\ LET act == ActiveEvents(Events, probe.start, probe.end, today)
       IN probe' = [fn |-> "active_done", start |-> probe.start, end |-> probe.end,
                    processed |-> probe.processed, active |-> act,
                    unprocessed |-> Unprocessed(act, LedgerWithProcessed(probe.processed))]
    /\ UNCHANGED cmdVars

SpecActive == ActiveInit /\ [][ActiveCall]_vars

\* C14: the active events are exactly the ledger events with
\* startDate <= today <= endDate, in declaration order, so an event with
\* startDate > endDate is never among them; the unprocessed active events are
\* exactly the active ones with processed=false, in the same order.
C14_ActiveEventsByDate ==
    probe.fn = "active_done" =>
        /\ \A e \in EventIds :
              e \in Range(probe.active) <=>
                  (probe.start[e] <= today /\ today <= probe.end[e])
        /\ \A e \in EventIds :
              probe.start[e] > probe.end[e] => e \notin Range(probe.active)
        /\ probe.active = SelectSeq2(Events, Range(probe.active))
        /\ \A e \in EventIds :
              e \in Range(probe.unprocessed) <=>
                  (e \in Range(probe.active) /\ e \notin probe.processed)
        /\ probe.unprocessed = SelectSeq2(Events, Range(probe.unprocessed))

\* C14 witness: today is the first day of one event and the last day of the
\* other, both are active and one of them is processed
C14_Witness ==
    /\ probe.fn = "active_done"
    /\ probe.start["e1"] = today
    /\ probe.end["e1"] > today
    /\ probe.end["e2"] = today
    /\ probe.start["e2"] < today
    /\ probe.active = Events
    /\ probe.unprocessed = <<"e2">>

(***************************************************************************)
(* AgenticOrchestrator.process, run next to the classic commands.          *)
(***************************************************************************)
\* a completion that also sets the processed flag
AgenticDonePatchProcessed == [status |-> "processed", processed |-> TRUE, commit_sha |-> "sha"]

\* _process_event_agentic: update_event_progress(status="processed",
\* branch=..., commit_sha=...); branch is no field of EventProgress
AgenticDonePatch == [status |-> "processed", branch |-> "b", commit_sha |-> "sha"]

\* AgenticOrchestrator.process up to the event loop
AgenticStart(eid) ==
    /\ StartCommand
    /\ LET evs == EventsToProcess(lock, today, eid)
           r == NewRun("agentic_process", eid, evs, <<>>, FALSE)
       IN IF evs = <<>>
          THEN /\ Return
               /\ thisRun' = Ended(r, TRUE)
          ELSE /\ pc' = "agentic"
               /\ queue' = evs
               /\ thisRun' = r
               /\ UNCHANGED <<optOnly, optForce, todo, modified>>
    /\ step' = NoStep
    /\ UNCHANGED <<probe, today, wt, heads, branches, cur, lock>>

\* _process_event_agentic for the next event of the loop: the agent rewrites
\* the images in place ("changed"), leaves them alone ("nochange"), or a step
\* raises ("fail")
AgenticEventStep(outcome) ==
    /\ pc = "agentic"
    /\ LET e == Head(queue)
           b == BranchName(e)
           r == [thisRun EXCEPT !.attempted = Append(@, e)]
           hs == IF b \in branches THEN heads
                 ELSE [heads EXCEPT ![b] = heads[BaseBranch]]
           info == [kind |-> "agentic", ev |-> e, outcome |-> outcome]
       IN IF ~lock.global_analysis
          THEN \* "No global analysis found": return False, ledger untouched
               /\ outcome = "nochange"
               /\ Fault(FALSE)
               /\ step' = [info EXCEPT !.outcome = "no_analysis"]
               /\ NextEvent(FALSE, r)
               /\ UNCHANGED <<wt, heads, branches, cur, lock>>
          ELSE /\ Fault(outcome = "fail")
               /\ step' = info
               /\ branches' = branches \cup {b}
               /\ cur' = b
               /\ IF outcome = "fail"
                  THEN /\ wt' = hs[b]
                       /\ heads' = hs
                       /\ lock' = UpdateEventProgress(lock, e,
                                     [status |-> "error", error |-> "AgentError"])
                       /\ NextEvent(FALSE, r)
                  ELSE IF outcome = "changed"
                  THEN /\ hs[b][FA] < MaxGen
                       /\ wt' = [hs[b] EXCEPT ![FA] = Transform(@)]
                       /\ heads' = [hs EXCEPT ![b] = wt']
                       /\ lock' = UpdateEventProgress(lock, e, AgenticDonePatch)
                       /\ NextEvent(TRUE, [r EXCEPT !.commits = @ \cup {e},
                                                   !.transformed = @ \cup {<<e, FA>>}])
                  ELSE \* "No changes to commit": reported as success
                       /\ wt' = hs[b]
                       /\ heads' = hs
                       /\ lock' = lock
                       /\ NextEvent(TRUE, r)
    /\ UNCHANGED <<probe, today, nCmds, prevRun, prevLock>>

NextAgentic ==
    \/ Analyze
    \/ \E eid \in EventIds \cup {NoEvent} : AgenticStart(eid)
    \/ \E outcome \in {"changed", "nochange", "fail"} : AgenticEventStep(outcome)
    \/ \E a \in ProcessArgs : ProcessStart(a[1], a[2][1], a[2][2])
    \/ \E outcome \in {"ok", "branch_fail", "analysis_fail"} : ProcessEventBegin(outcome)
    \/ \E outcome \in {"ok", "backup_fail", "transform_fail"} : ProcessFileStep(outcome)
    \/ \E commitOk \in BOOLEAN : ProcessEventFinish(commitOk)

SpecAgentic == Init /\ [][NextAgentic]_vars

\* a process invocation of either orchestrator returned success
ReportedSuccess ==
    /\ thisRun.cmd \in {"process", "agentic_process"}
    /\ thisRun.state = "returned"
    /\ thisRun.ret

\* C15: once a process invocation (classic or agentic) has reported success
\* for an event, a default invocation with no event id does not select that
\* event again; a default invocation only processes events that are active
\* today and had processed=false when it started.
C15_ProcessedEventsAreNotSelectedAgain ==
    /\ ReportedSuccess =>
          \A e \in Range(thisRun.attempted) :
              e \notin Range(EventsToProcess(lock, today, NoEvent))
    /\ (thisRun.cmd \in {"process", "agentic_process"} /\ thisRun.eid = NoEvent) =>
          \A e \in Range(thisRun.attempted) :
              /\ IsActive(StartDate[e], EndDate[e], today)
              /\ ~prevLock.events[e].progress.processed

(***************************************************************************)
(* GitAgent.find_file called on repositories with the file at several      *)
(* places.  Here a path is the sequence of its directory components and    *)
(* the file name, relative to the repository root.                         *)
(***************************************************************************)
\* the normalized path that is looked up: img/hero.png
Normalized == <<"img", "hero.png">>

\* config.project.sources tried
SourceChoices == {<<>>, <<"s1">>, <<"s1", "s2">>}

\* the directories a copy of img/hero.png may sit under
CopyDirs ==
    {<<>>, <<"web-ui", "src">>, <<"public">>, <<"docs">>}
        \cup UNION {{<<s>>, <<s, "web-ui", "src">>, <<s, "public">>} : s \in {"s1", "s2"}}

\* the files the repository may hold: copies of img/hero.png, and a file
\* with the same name under another sub-path
PossibleFiles == {d \o Normalized : d \in CopyDirs} \cup {<<"docs", "hero.png">>}

IsPrefix(a, b) == Len(a) <= Len(b) /\ SubSeq(b, 1, Len(a)) = a

EndsWith(f, pat) ==
    Len(pat) <= Len(f) /\ SubSeq(f, Len(f) - Len(pat) + 1, Len(f)) = pat

\* Path.exists() of a directory: some file lies under it
DirExists(fs, d) == \E f \in fs : IsPrefix(d, f) /\ Len(d) < Len(f)

\* the directory a recursive glob match is anchored at
Anchor(f, pat) == SubSeq(f, 1, Len(f) - Len(pat))

\* the first file hit of repo_path.rglob(pat): the walk visits a directory
\* before its sub-directories and siblings in the order the file system
\* lists them, so any match with no match at an ancestor can come first
RglobFirstHits(fs, pat) ==
    LET hits == {f \in fs : EndsWith(f, pat)}
    IN {f \in hits : ~\E g \in hits :
            /\ g # f
            /\ IsPrefix(Anchor(g, pat), Anchor(f, pat))
            /\ Anchor(g, pat) # Anchor(f, pat)}

RECURSIVE SourceCandidates(_, _)
\* find_file: the three candidates appended for every source root, in turn
SourceCandidates(sources, norm) ==
    IF sources = <<>> THEN <<>>
    ELSE LET s == Head(sources)
         IN <<<<s>> \o norm, <<s, "web-ui", "src">> \o norm, <<s, "public">> \o norm>>
                \o SourceCandidates(Tail(sources), norm)

\* find_file: the candidates list
FindCandidates(fs, norm, sources) ==
    <<norm>> \o SourceCandidates(sources, norm)
        \o (IF DirExists(fs, <<"web-ui", "src">>) THEN <<<<"web-ui", "src">> \o norm>> ELSE <<>>)
        \o (IF DirExists(fs, <<"public">>) THEN <<<<"public">> \o norm>> ELSE <<>>)

RECURSIVE FirstExisting(_, _, _)
\* the first path of a list that exists, or the fallback
FirstExisting(fs, cands, fallback) ==
    IF cands = <<>> THEN fallback
    ELSE IF Head(cands) \in fs THEN Head(cands)
    ELSE FirstExisting(fs, Tail(cands), fallback)

\* GitAgent.find_file: the paths it may return
FindFileIn(fs, norm, sources) ==
    LET cands == FindCandidates(fs, norm, sources)
        name == <<norm[Len(norm)]>>
    IN IF RglobFirstHits(fs, norm) # {} THEN RglobFirstHits(fs, norm)
       ELSE IF RglobFirstHits(fs, name) # {} THEN RglobFirstHits(fs, name)
       ELSE {FirstExisting(fs, cands, cands[1])}

\* full_path.with_suffix(full_path.suffix + '.original'), written as the
\* path followed by one more component
OriginalBeside(f) == f \o <<".original">>

\* what the repository may hold: the files, and a backup left beside the
\* repository-root path
PossibleEntries == PossibleFiles \cup {OriginalBeside(Normalized)}

\* _process_images / _process_texts: what the loop does with the path
\* find_file returned
RecordsForPath(fs, full, force) ==
    IF OriginalBeside(full) \in fs /\ ~force THEN "processed"
    ELSE IF full \notin fs THEN "missing"
    ELSE "transform"

FindInit ==
    /\ Fresh
    /\ \E fs \in SUBSET PossibleEntries, sources \in SourceChoices,
          force \in BOOLEAN, repo \in BOOLEAN :
          probe = [fn |-> "find", fs |-> fs, sources |-> sources,
                   force |-> force, repo |-> repo]

\* one iteration of the processing loop: find_file, then the checks on the
\* path it returned
FindFileStep ==
    /\ probe.fn = "find"
    /\ probe.repo
    /\ \E full \in FindFileIn(probe.fs, Normalized, probe.sources) :
          probe' = [fn |-> "find_done", fs |-> probe.fs, sources |-> probe.sources,
                    force |-> probe.force, repo |-> TRUE, raised |-> FALSE,
                    full |-> full,
                    recorded |-> RecordsForPath(probe.fs, full, probe.force)]
    /\ UNCHANGED cmdVars

\* find_file without a cloned repository
FindFileNoRepo ==
    /\ probe.fn = "find"
    /\ ~probe.repo
    /\ probe' = [fn |-> "find_done", fs |-> probe.fs, sources |-> probe.sources,
                 force |-> probe.force, repo |-> FALSE, raised |-> TRUE,
                 full |-> <<>>, recorded |-> "none"]
    /\ UNCHANGED cmdVars

NextFind == FindFileStep \/ FindFileNoRepo

SpecFind == FindInit /\ [][NextFind]_vars

\* C16: find_file returns the first existing candidate of the declared
\* priority order (repository root, every source root in declaration order,
\* the per-source web-ui/src and public, the repository's web-ui/src and
\* public), and only when none of them exists a recursive match: first by
\* sub-path, then by file name.
C16_FirstExistingCandidateWins ==
    (probe.fn = "find_done" /\ ~probe.raised) =>
        LET n == Len(probe.sources)
            cands ==
                <<Normalized>>
                    \o [i \in 1..n |-> <<probe.sources[i]>> \o Normalized]
                    \o [i \in 1..(2 * n) |->
                            <<probe.sources[(i + 1) \div 2]>>
                                \o (IF i % 2 = 1 THEN <<"web-ui", "src">> ELSE <<"public">>)
                                \o Normalized]
                    \o <<<<"web-ui", "src">> \o Normalized, <<"public">> \o Normalized>>
            existing == {i \in 1..Len(cands) : cands[i] \in probe.fs}
            bySubPath == {f \in probe.fs \cap PossibleFiles : EndsWith(f, Normalized)}
            byName == {f \in probe.fs \cap PossibleFiles : f[Len(f)] = Normalized[Len(Normalized)]}
        IN IF existing # {}
           THEN \A i \in existing :
                    (\A j \in existing : i <= j) => probe.full = cands[i]
           ELSE IF bySubPath # {} THEN probe.full \in bySubPath
           ELSE IF byName # {} THEN probe.full \in byName
           ELSE probe.full = Normalized

\* C17: when the file exists nowhere in the repository, find_file raises
\* nothing and returns the repository-root path, and the processing loop
\* records the file as missing; find_file raises exactly when the repository
\* is not initialised.
C17_NotFoundIsReportedMissing ==
    probe.fn = "find_done" =>
        /\ probe.raised <=> ~probe.repo
        /\ (probe.repo /\ probe.fs \cap PossibleFiles = {}) =>
              /\ probe.full = Normalized
              /\ probe.recorded = "missing"

\* the resolution half of C17 alone
C17_NotFoundReturnsRootPath ==
    probe.fn = "find_done" =>
        /\ probe.raised <=> ~probe.repo
        /\ (probe.repo /\ probe.fs \cap PossibleFiles = {}) => probe.full = Normalized

(***************************************************************************)
(* The ledger store: ConfigManager's in-memory ledger (_lock) and the      *)
(* ledger file, over several processes.  last_updated is left out: save    *)
(* refreshes it in memory before it writes.                                *)
(***************************************************************************)
\* ledger operations made in one behaviour
MaxOps == 3

\* repo_key: "default" when ConfigManager.repo_path is None (analyze, process,
\* push, restore, clear), the repository folder name after
\* align_lock_with_workspace (status).  In manifest mode the key stands for
\* the directory event.manifest-lock.json is resolved in.
RepoKeys == {"default", "repoA"}

\* ConfigLock as the store sees it: the event ledger, the project/defaults
\* mirror and the reported suggestions
NewStoreLedger ==
    [lock |-> CreateNewLock, project |-> "config", reported_suggestions |-> {}]

\* a ledger that an earlier run left: e1 processed, global analysis cached
ProgressedLedger ==
    [lock |-> UpdateEventProgress([CreateNewLock EXCEPT !.global_analysis = TRUE], "e1",
                                  [status |-> "completed", processed |-> TRUE]),
     project |-> "config", reported_suggestions |-> {}]

NoEntry == [present |-> FALSE, ledger |-> NewStoreLedger]

Entry(lg) == [present |-> TRUE, ledger |-> lg]

NoLedgerFile == [exists |-> FALSE, entries |-> [k \in RepoKeys |-> NoEntry]]

\* a write that keeps nothing of the file but the current entry
WriteAlone(file, k, lg) ==
    [exists |-> TRUE, entries |-> [x \in RepoKeys |-> IF x = k THEN Entry(lg) ELSE NoEntry]]

\* save_lock / load_lock: raw is read from the file, raw[repo_key] is set and
\* raw is written back; in manifest mode the one file of this location is written
WriteMerged(file, k, lg) ==
    [exists |-> TRUE, entries |-> [file.entries EXCEPT ![k] = Entry(lg)]]

\* a save that writes nothing
SaveLockSkipped(st) == st

\* ConfigManager.save_lock
SaveLock(st) == [st EXCEPT !.file = WriteMerged(st.file, st.key, st.mem.ledger)]

\* the persisted ledger load_lock finds at the resolved location
Persisted(st) == st.file.entries[st.key]

\* a load that keeps a synthesized ledger in memory only
LoadLockUnsaved(st) ==
    IF Persisted(st).present
    THEN [st EXCEPT !.mem = [loaded |-> TRUE, ledger |-> Persisted(st).ledger]]
    ELSE [st EXCEPT !.mem = [loaded |-> TRUE, ledger |-> NewStoreLedger]]

\* ConfigManager.load_lock
LoadLock(st) ==
    IF Persisted(st).present
    THEN [st EXCEPT !.mem = [loaded |-> TRUE, ledger |-> Persisted(st).ledger]]
    ELSE SaveLock([st EXCEPT !.mem = [loaded |-> TRUE, ledger |-> NewStoreLedger]])

\* `if not self._lock: self.load_lock()`
EnsureLock(st) == IF st.mem.loaded THEN st ELSE LoadLock(st)

\* a mutation of the loaded ledger followed by save_lock
Mutate(st, lg) == SaveLock([st EXCEPT !.mem.ledger = lg])

\* Orchestrator._report_suggestions for one suggestion: the entry is
\* appended only when the agent's response has a last message
ReportSuggestions(st) ==
    IF Len(GitHubAgentRun) = 0 THEN st
    ELSE [st EXCEPT !.mem.ledger.reported_suggestions = @ \cup {"fp"}]

\* the progress patches the orchestrators write
StorePatches ==
    {[status |-> "processing"], [status |-> "completed", processed |-> TRUE]}

\* ledger files at the start: in workspace mode no file or a map of entries,
\* in manifest mode each location with or without a file
StoreFiles(mode) ==
    LET entries == {NoEntry, Entry(NewStoreLedger), Entry(ProgressedLedger)}
        maps == {[exists |-> TRUE, entries |-> m] : m \in [RepoKeys -> entries]}
    IN IF mode = "workspace" THEN maps \cup {NoLedgerFile} ELSE maps

StoreState(mode, key, file) ==
    [fn |-> "store", mode |-> mode, key |-> key, file |-> file,
     mem |-> [loaded |-> FALSE, ledger |-> NewStoreLedger],
     last |-> "start", prev |-> file, before |-> NewStoreLedger, n |-> 0]

StoreInit ==
    /\ Fresh
    /\ \E mode \in {"workspace", "manifest"}, key \in RepoKeys :
          \E file \in StoreFiles(mode) : probe = StoreState(mode, key, file)

\* one ledger operation op of the running process takes the store to st
StoreStep(op, st) ==
    /\ probe.fn = "store"
    /\ probe.n < MaxOps
    /\ probe' = [st EXCEPT !.last = op, !.prev = probe.file,
                           !.before = EnsureLock(probe).mem.ledger, !.n = probe.n + 1]
    /\ UNCHANGED cmdVars

\* the process ends (or is killed) and the next command starts: the
\* orchestrators leave repo_path unset, status aligns it with the repository
StoreNewProcess ==
    \E key \in RepoKeys :
        StoreStep("start", [probe EXCEPT !.key = key,
                                         !.mem = [loaded |-> FALSE, ledger |-> NewStoreLedger]])

StoreLoad == StoreStep("load", LoadLock(probe))

StoreUpdateProgress ==
    /\ probe.key = "default"
    /\ \E e \in EventIds, patch \in StorePatches :
          LET st == EnsureLock(probe)
          IN StoreStep("update_event_progress",
                       Mutate(st, [st.mem.ledger EXCEPT
                                      !.lock = UpdateEventProgress(@, e, patch)]))

StoreUpdateAnalysis ==
    /\ probe.key = "default"
    /\ \E e \in EventIds :
          LET st == EnsureLock(probe)
          IN StoreStep("update_event_analysis",
                       Mutate(st, [st.mem.ledger EXCEPT !.lock = UpdateEventAnalysis(@, e)]))

StoreUpdateGlobalAnalysis ==
    /\ probe.key = "default"
    /\ LET st == EnsureLock(probe)
       IN StoreStep("update_global_analysis",
                    Mutate(st, [st.mem.ledger EXCEPT !.lock.global_analysis = TRUE]))

\* Orchestrator._process_event: last_executed is set, then save_lock
StoreLastExecuted ==
    /\ probe.key = "default"
    /\ \E e \in EventIds :
          LET st == EnsureLock(probe)
          IN StoreStep("last_executed",
                       Mutate(st, [st.mem.ledger EXCEPT !.lock.events[e].last_executed = TRUE]))

StoreClearEvent ==
    /\ probe.key = "default"
    /\ \E e \in EventIds :
          LET st == EnsureLock(probe)
          IN StoreStep("clear_event",
                       Mutate(st, [st.mem.ledger EXCEPT !.lock.events[e] = NewEventLock]))

StoreApplyOverrides ==
    /\ probe.key = "default"
    /\ LET st == EnsureLock(probe)
       IN StoreStep("apply_overrides",
                    Mutate(st, [st.mem.ledger EXCEPT !.project = "manifest"]))

StoreReportSuggestions ==
    /\ probe.key = "default"
    /\ StoreStep("report_suggestions", ReportSuggestions(EnsureLock(probe)))

NextStore ==
    \/ StoreNewProcess
    \/ StoreLoad
    \/ StoreUpdateProgress
    \/ StoreUpdateAnalysis
    \/ StoreUpdateGlobalAnalysis
    \/ StoreLastExecuted
    \/ StoreClearEvent
    \/ StoreApplyOverrides
    \/ StoreReportSuggestions

SpecStore == StoreInit /\ [][NextStore]_vars

\* C18: after load, a ledger that was persisted at the resolved location is
\* the in-memory ledger and the file is as it was; without one (no file, or
\* no entry for this repository) the in-memory ledger has every configured
\* event pending with all flags false and no analysis, and it is persisted.
C18_LoadReadsOrSynthesizes ==
    (probe.fn = "store" /\ probe.last = "load") =>
        IF probe.prev.entries[probe.key].present
        THEN /\ probe.mem.loaded
             /\ probe.mem.ledger = probe.prev.entries[probe.key].ledger
             /\ probe.file = probe.prev
        ELSE /\ probe.mem.loaded
             /\ probe.mem.ledger.lock = CreateNewLock
             /\ \A e \in EventIds :
                   LET p == probe.mem.ledger.lock.events[e].progress
                   IN /\ p.status = "pending"
                      /\ ~p.analyzed /\ ~p.processed /\ ~p.pushed
                      /\ ~probe.mem.ledger.lock.events[e].analysis
             /\ probe.file.exists
             /\ probe.file.entries[probe.key] = Entry(probe.mem.ledger)

C18_Witness ==
    /\ probe.fn = "store" /\ probe.last = "load"
    /\ ~probe.prev.entries[probe.key].present
    /\ probe.file.entries[probe.key] = Entry(NewStoreLedger)
    /\ \E k \in RepoKeys : k # probe.key /\ probe.file.entries[k].present

\* a load that found a persisted ledger with progress in it
C18_WitnessExisting ==
    /\ probe.fn = "store" /\ probe.last = "load"
    /\ probe.prev.entries[probe.key].present
    /\ probe.mem.ledger # NewStoreLedger

StoreMutations ==
    {"update_event_progress", "update_event_analysis", "update_global_analysis",
     "last_executed", "clear_event", "apply_overrides", "report_suggestions"}

KillOutcomes == {"before_open", "while_writing", "after_write"}

\* the ledger file after save_lock of ledger lg under key k was cut short
FileAfterKill(file, k, lg, outcome) ==
    IF outcome = "before_open" THEN file ELSE WriteMerged(file, k, lg)

KillInit ==
    /\ Fresh
    /\ \E mode \in {"workspace", "manifest"}, key \in RepoKeys :
          \E file \in StoreFiles(mode) :
              probe = [torn |-> FALSE] @@ StoreState(mode, key, file)

\* update_event_progress is killed inside save_lock; the next command then
\* starts with nothing in memory
StoreKilledInSave ==
    /\ ~probe.torn
    /\ probe.key = "default"
    /\ \E e \in EventIds, patch \in StorePatches, outcome \in KillOutcomes :
          LET st == EnsureLock(probe)
              lg == [st.mem.ledger EXCEPT !.lock = UpdateEventProgress(@, e, patch)]
          IN StoreStep("killed",
                       [st EXCEPT !.file = FileAfterKill(st.file, st.key, lg, outcome),
                                  !.torn = (outcome = "while_writing"),
                                  !.mem = [loaded |-> FALSE, ledger |-> NewStoreLedger]])

\* load_lock on a partial document: json.load raises and nothing is loaded
StoreLoadTorn ==
    /\ probe.torn
    /\ StoreStep("load_failed", probe)

NextKill ==
    \/ StoreKilledInSave
    \/ StoreLoadTorn
    \/ (~probe.torn /\ StoreNewProcess)
    \/ (~probe.torn /\ StoreLoad)
    \/ (~probe.torn /\ StoreUpdateProgress)
    \/ (~probe.torn /\ StoreUpdateAnalysis)
    \/ (~probe.torn /\ StoreUpdateGlobalAnalysis)
    \/ (~probe.torn /\ StoreLastExecuted)
    \/ (~probe.torn /\ StoreClearEvent)
    \/ (~probe.torn /\ StoreApplyOverrides)
    \/ (~probe.torn /\ StoreReportSuggestions)

SpecKill == KillInit /\ [][NextKill]_vars

\* C21: after a process was killed during save, the ledger file holds the
\* complete previous document or the complete new one, never a partial one,
\* and the next run loads it.
C21_KilledSaveLeavesWholeDocument ==
    /\ (probe.fn = "store" /\ probe.last = "killed") => ~probe.torn
    /\ probe.fn = "store" => probe.last # "load_failed"

(***************************************************************************)
(* The commands of the CLI, each a process of its own, on one              *)
(* configuration file and one repository (GITHUB_REPO_NAME = owner/repoA), *)
(* starting in a workspace without a ledger file.                          *)
(***************************************************************************)
\* the key (in manifest mode: the directory) a command resolves the ledger
\* under: create_orchestrator builds ConfigManager(config_path) and neither
\* orchestrator sets its repo_path; status calls align_lock_with_workspace
RepoKeyOf(cmd) == IF cmd = "status" THEN "repoA" ELSE "default"

CmdInit ==
    /\ Fresh
    /\ \E mode \in {"workspace", "manifest"} :
          probe = [ran |-> FALSE, written |-> NewStoreLedger]
                      @@ StoreState(mode, "default", NoLedgerFile)

\* the ConfigManager of a command that has just started
Started(cmd) ==
    [probe EXCEPT !.key = RepoKeyOf(cmd),
                  !.mem = [loaded |-> FALSE, ledger |-> NewStoreLedger]]

\* a command that has loaded the ledger and left it as lg
CmdStep(cmd, st, lg) ==
    LET done == IF lg = st.mem.ledger THEN st ELSE Mutate(st, lg)
    IN StoreStep(cmd, [done EXCEPT !.ran = TRUE, !.written = done.mem.ledger])

CmdAnalyze ==
    LET st == LoadLock(Started("analyze"))
    IN CmdStep("analyze", st, [st.mem.ledger EXCEPT !.lock.global_analysis = TRUE])

CmdProcess ==
    \E e \in EventIds, patch \in StorePatches :
        LET st == LoadLock(Started("process"))
        IN CmdStep("process", st, [st.mem.ledger EXCEPT !.lock = UpdateEventProgress(@, e, patch)])

\* push reads the ledger; no run gets as far as writing pushed
CmdPush ==
    LET st == LoadLock(Started("push"))
    IN CmdStep("push", st, st.mem.ledger)

CmdRestore ==
    \E e \in EventIds :
        LET st == LoadLock(Started("restore"))
        IN CmdStep("restore", st,
                   [st.mem.ledger EXCEPT !.lock = UpdateEventProgress(@, e, [modified_files |-> {}])])

CmdClear ==
    \E e \in EventIds :
        LET st == LoadLock(Started("clear"))
        IN CmdStep("clear", st, [st.mem.ledger EXCEPT !.lock.events[e] = NewEventLock])

\* status: load_config, align_lock_with_workspace, load_lock
CmdStatus == StoreStep("status", LoadLock(Started("status")))

NextCmd ==
    \/ CmdAnalyze
    \/ CmdProcess
    \/ CmdPush
    \/ CmdRestore
    \/ CmdClear
    \/ CmdStatus

SpecCmd == CmdInit /\ [][NextCmd]_vars

\* C22: every command resolves the same ledger location, so the ledger status
\* loads is the one the last of analyze, process, push, restore and clear
\* left persisted.
C22_StatusReadsWhatWasWritten ==
    (probe.fn = "store" /\ probe.last = "status" /\ probe.ran) =>
        /\ \A cmd \in {"analyze", "process", "push", "restore", "clear"} :
              probe.key = RepoKeyOf(cmd)
        /\ probe.mem.ledger = probe.written

(***************************************************************************)
(* The two storage layouts side by side: the same ledger operations are    *)
(* made by the commands' ConfigManager (repo_path unset) on a workspace-   *)
(* keyed store and on an in-repo store that start with the same ledger.    *)
(***************************************************************************)
Unloaded == [loaded |-> FALSE, ledger |-> NewStoreLedger]

\* ConfigManager.clear_all: the file at lock_path is removed if it exists.
\* lock_path is the resolved location once load_lock has run in this
\* process; before that it is the name derived in __init__, relative to the
\* current directory: config-lock.json, which no command writes, or
\* event.manifest-lock.json, which is the in-repo store of a ConfigManager
\* without repo_path.
ClearAll(st, resolved) ==
    LET cleared == [st EXCEPT !.mem = Unloaded]
    IN IF st.mode = "workspace"
       THEN IF resolved THEN [cleared EXCEPT !.file = NoLedgerFile] ELSE cleared
       ELSE [cleared EXCEPT !.file.entries[IF resolved THEN st.key ELSE "default"] = NoEntry]

LayoutLedgers == {NoEntry, Entry(ProgressedLedger)}

LayoutInit ==
    /\ Fresh
    /\ \E entry \in LayoutLedgers :
          LET file == [exists |-> entry.present,
                       entries |-> [k \in RepoKeys |-> IF k = "default" THEN entry ELSE NoEntry]]
          IN probe = [fn |-> "layouts", last |-> "start", n |-> 0, resolved |-> FALSE,
                      ws |-> StoreState("workspace", "default", file),
                      mf |-> StoreState("manifest", "default", file)]

\* the same operation is made on both stores
LayoutStep(op, ws, mf, resolved) ==
    /\ probe.fn = "layouts"
    /\ probe.n < MaxOps
    /\ probe' = [fn |-> "layouts", last |-> op, n |-> probe.n + 1, resolved |-> resolved,
                 ws |-> ws, mf |-> mf]
    /\ UNCHANGED cmdVars

\* a mutation of the ledger followed by save_lock, after get_event_lock
Updated(st, e, op) ==
    LET s == EnsureLock(st)
    IN Mutate(s, [s.mem.ledger EXCEPT !.lock =
                      IF op = "update_event_progress"
                      THEN UpdateEventProgress(@, e, [status |-> "completed", processed |-> TRUE])
                      ELSE IF op = "update_event_analysis" THEN UpdateEventAnalysis(@, e)
                      ELSE [@ EXCEPT !.events[e] = NewEventLock]])

LayoutNewProcess ==
    LayoutStep("start", [probe.ws EXCEPT !.mem = Unloaded],
               [probe.mf EXCEPT !.mem = Unloaded], FALSE)

LayoutLoad == LayoutStep("load", LoadLock(probe.ws), LoadLock(probe.mf), TRUE)

LayoutUpdateProgress ==
    \E e \in EventIds :
        LayoutStep("update_event_progress", Updated(probe.ws, e, "update_event_progress"),
                   Updated(probe.mf, e, "update_event_progress"), TRUE)

LayoutUpdateAnalysis ==
    \E e \in EventIds :
        LayoutStep("update_event_analysis", Updated(probe.ws, e, "update_event_analysis"),
                   Updated(probe.mf, e, "update_event_analysis"), TRUE)

LayoutClearEvent ==
    \E e \in EventIds :
        LayoutStep("clear_event", Updated(probe.ws, e, "clear_event"),
                   Updated(probe.mf, e, "clear_event"), TRUE)

LayoutClearAll ==
    LayoutStep("clear_all", ClearAll(probe.ws, probe.resolved),
               ClearAll(probe.mf, probe.resolved), probe.resolved)

NextLayout ==
    \/ LayoutNewProcess
    \/ LayoutLoad
    \/ LayoutUpdateProgress
    \/ LayoutUpdateAnalysis
    \/ LayoutClearEvent
    \/ LayoutClearAll

SpecLayout == LayoutInit /\ [][NextLayout]_vars

\* C23: after every sequence of ledger operations the in-memory ledger of the
\* workspace-keyed layout is the in-memory ledger of the in-repo layout.
C23_LayoutsAreEquivalent ==
    probe.fn = "layouts" => probe.ws.mem = probe.mf.mem

\* C24: after the clear command without an event id (clear_all, made by a
\* process that has loaded nothing) the next load yields every configured
\* event with status pending, processed=false and pushed=false.
C24_ClearAllResetsEveryEvent ==
    (probe.fn = "layouts" /\ probe.last = "clear_all" /\ ~probe.resolved) =>
        \A st \in {probe.ws, probe.mf} : \A e \in EventIds :
            LET p == LoadLock(st).mem.ledger.lock.events[e].progress
            IN p.status = "pending" /\ ~p.processed /\ ~p.pushed

\* C25: after restore, every given file that had a backup in the checkout has
\* its ledger entry at status pending and the backup path that processing
\* records for it is no longer in the event's modified_files; every given
\* file without a backup has the ledger entry it had before.
C25_RestoreResetsLedgerEntry ==
    step.kind = "restore" =>
        LET pr == lock.events[step.ev].progress
            old == prevLock.events[step.ev].progress
            base == heads[BaseBranch]
        IN \A f \in Range(step.files) :
              IF base[GetBackupPath(f)] # NoFile \/ base[LegacyBackupPath(f)] # NoFile
              THEN /\ pr.file_status[f].status = "pending"
                   /\ GetBackupPath(f) \notin pr.modified_files
              ELSE pr.file_status[f] = old.file_status[f]

\* the part of C25 that restore_files does: a restored file is pending again
\* and a file that was not restored keeps its entry
C25_RestoredFilesArePending ==
    step.kind = "restore" =>
        LET pr == lock.events[step.ev].progress
            old == prevLock.events[step.ev].progress
        IN \A f \in Range(step.files) :
              IF f \in step.restored
              THEN pr.file_status[f].status = "pending"
              ELSE pr.file_status[f] = old.file_status[f]

\* the values the ledger documents for progress.status
EventStatuses == {"pending", "analyzing", "processing", "completed", "failed"}

\* C26: in every reachable ledger, under the classic and the agentic
\* orchestrator, the status of every event is one of pending, analyzing,
\* processing, completed and failed.
C26_StatusIsOneOfFive ==
    \A e \in EventIds : lock.events[e].progress.status \in EventStatuses

(***************************************************************************)
(* The event list of the configuration against the event list of the       *)
(* ledger: the configuration file is edited between runs, or its events    *)
(* are replaced by the manifest overrides of analyze.                      *)
(***************************************************************************)
\* event lists of the configuration, and of the overrides
EventLists == {<<"e1">>, <<"e1", "e2">>, <<"e2", "e1">>, <<"e1", "e2", "e3">>}

NoOverride == <<>>

\* _create_new_lock: one EventLock per configured event, status pending
NewLockEvents(cfg) == [i \in 1..Len(cfg) |-> [id |-> cfg[i], status |-> "pending"]]

\* load_lock with a persisted ledger: ConfigLock(**data), its events as stored
LoadedEvents(cfg, persisted) == persisted

EvInit ==
    /\ Fresh
    /\ \E cfg \in EventLists :
          probe = [fn |-> "events", config |-> cfg, loaded |-> FALSE, events |-> <<>>,
                   saved |-> FALSE, disk |-> <<>>, last |-> "start", n |-> 0]

EvStep(op, st) ==
    /\ probe.fn = "events"
    /\ probe.n < MaxOps
    /\ probe' = [st EXCEPT !.last = op, !.n = probe.n + 1]
    /\ UNCHANGED cmdVars

\* ConfigManager.load_lock
EvLoadLock(st) ==
    IF st.saved
    THEN [st EXCEPT !.loaded = TRUE, !.events = LoadedEvents(st.config, st.disk)]
    ELSE [st EXCEPT !.loaded = TRUE, !.events = NewLockEvents(st.config),
                    !.saved = TRUE, !.disk = NewLockEvents(st.config)]

EvEnsureLock(st) == IF st.loaded THEN st ELSE EvLoadLock(st)

\* a new process on a configuration file that may have been edited
EvNewProcess ==
    \E cfg \in EventLists :
        EvStep("start", [probe EXCEPT !.config = cfg, !.loaded = FALSE, !.events = <<>>])

EvLoad == EvStep("load", EvLoadLock(probe))

\* ConfigManager.apply_overrides: the events of the configuration are
\* replaced if the overrides have any; the ledger is loaded if it is not,
\* project and defaults are mirrored, and it is saved
EvApplyOverrides ==
    \E over \in EventLists \cup {NoOverride} :
        LET cfg == IF over = NoOverride THEN probe.config ELSE over
            st == EvEnsureLock([probe EXCEPT !.config = cfg])
        IN EvStep("apply_overrides", [st EXCEPT !.saved = TRUE, !.disk = st.events])

\* ConfigManager.update_event_progress(status=...)
EvUpdateProgress ==
    \E i \in 1..3, s \in {"processing", "completed"} :
        LET st == EvEnsureLock(probe)
        IN /\ i <= Len(st.events)
           /\ EvStep("update_event_progress",
                     [st EXCEPT !.events[i].status = s, !.saved = TRUE,
                                !.disk = [st.events EXCEPT ![i].status = s]])

NextEv ==
    \/ EvNewProcess
    \/ EvLoad
    \/ EvApplyOverrides
    \/ EvUpdateProgress

SpecEv == EvInit /\ [][NextEv]_vars

\* C27: after load and after apply_overrides the ledger has exactly one
\* EventLock per event of the current configuration, with the same ids in the
\* same order.
C27_LedgerFollowsConfiguration ==
    (probe.fn = "events" /\ probe.last \in {"load", "apply_overrides"}) =>
        /\ Len(probe.events) = Len(probe.config)
        /\ \A i \in 1..Len(probe.config) : probe.events[i].id = probe.config[i]

(***************************************************************************)
(* Suggestion reporting: analyze runs on ledgers with and without a cached *)
(* global analysis, with the improvement suggestions the analysis returns. *)
(* A suggestion is written as its fingerprint (sha256 of title and body).  *)
(***************************************************************************)
Fingerprints == {"fpA", "fpB"}

\* suggestions in one analysis result
MaxSuggestions == 2

SuggestionLists ==
    UNION {[1..k -> Fingerprints] : k \in 0..MaxSuggestions}

RECURSIVE ReportLoop(_, _, _, _)
\* the loop of _report_suggestions: reportedFps is computed once before the
\* loop; every suggestion that is not in it goes to github_agent.run, and its
\* entry is appended to the ledger in memory only if the response has a last
\* message
ReportLoop(suggestions, reportedFps, reported, calls) ==
    IF suggestions = <<>> THEN [reported |-> reported, calls |-> calls]
    ELSE LET fp == Head(suggestions)
         IN IF fp \in reportedFps
            THEN ReportLoop(Tail(suggestions), reportedFps, reported, calls)
            ELSE ReportLoop(Tail(suggestions), reportedFps,
                            IF Len(GitHubAgentRun) = 0 THEN reported ELSE reported \cup {fp},
                            [calls EXCEPT ![fp] = @ + 1])

SgInit ==
    /\ Fresh
    /\ \E mode \in {"workspace", "manifest"} :
          probe = [fn |-> "suggest", mode |-> mode, global_analysis |-> FALSE,
                   persisted |-> {}, calls |-> [fp \in Fingerprints |-> 0],
                   sent |-> <<>>, last |-> "start", n |-> 0]

SgStep(op, st) ==
    /\ probe.fn = "suggest"
    /\ probe.n < MaxOps
    /\ probe' = [st EXCEPT !.last = op, !.n = probe.n + 1]
    /\ UNCHANGED cmdVars

\* Orchestrator.analyze in a new process: without a cached global analysis
\* the codebase is analyzed, the result is saved and its suggestions are
\* reported; nothing is saved after the reporting
SgAnalyze ==
    \E suggestions \in SuggestionLists :
        IF probe.global_analysis
        THEN SgStep("analyze_cached", [probe EXCEPT !.sent = <<>>])
        ELSE LET out == ReportLoop(suggestions, probe.persisted, probe.persisted, probe.calls)
             IN SgStep("analyze", [probe EXCEPT !.global_analysis = TRUE,
                                                !.calls = out.calls,
                                                !.sent = suggestions])

\* the clear command without an event id: clear_all removes the ledger in
\* manifest mode and nothing in workspace mode
SgClearAll ==
    SgStep("clear_all",
           IF probe.mode = "manifest"
           THEN [probe EXCEPT !.global_analysis = FALSE, !.persisted = {}, !.sent = <<>>]
           ELSE [probe EXCEPT !.sent = <<>>])

NextSg == SgAnalyze \/ SgClearAll

SpecSg == SgInit /\ [][NextSg]_vars

\* C28: the same suggestion, filed twice in one list or in two analyze runs,
\* goes to the issue-creation call exactly once, and a suggestion whose
\* fingerprint is persisted in reported_suggestions is not sent again.
C28_SuggestionIsFiledOnce ==
    probe.fn = "suggest" =>
        /\ \A fp \in Fingerprints : probe.calls[fp] <= 1
        /\ \A fp \in Range(probe.sent) : probe.calls[fp] = 1

(***************************************************************************)
(* inject_onerror_attribute(html, image_name, backup_name) without         *)
(* force_rewrite.  The HTML is written as the sequence of its img tags; a  *)
(* tag as what the two regular expressions can tell apart: the image its   *)
(* src and its data-src name, how an onerror attribute it already has is   *)
(* spelled, the handlers injected so far, and its closing.                 *)
(***************************************************************************)
Images == {"hero.png", "logo.png"}

\* onerror="h()" is compact, onerror = "h()" is spaced
OnerrorSpellings == {"none", "compact", "spaced"}

Closings == {">", "/>", " />"}

\* img tags in one document
MaxTags == 2

ImgTags ==
    [src : Images, dataSrc : Images \cup {"none"}, onerror : OnerrorSpellings,
     injected : {0}, closing : Closings]

Documents == UNION {[1..k -> ImgTags] : k \in 1..MaxTags}

\* the pattern `<img[^>]*?src=["'](?:[^'"]*/)?\bNAME\b["'][^>]*?` matches the
\* tag: some `src=` in it, the one of data-src included, is followed by the name
PatternMatches(tag, image) == tag.src = image \/ tag.dataSrc = image

\* re.search(r"onerror=", tag_start): a compact attribute, or the text of an
\* injected handler (this.onerror=null)
HasOnerrorText(tag) == tag.onerror = "compact" \/ tag.injected > 0

\* _inject on one match
InjectTag(tag, image) ==
    IF ~PatternMatches(tag, image) THEN tag
    ELSE IF HasOnerrorText(tag) THEN tag
    ELSE [tag EXCEPT !.injected = @ + 1,
                     !.closing = IF tag.closing = ">" THEN ">" ELSE " />"]

\* pattern.sub(_inject, html)
InjectOnerrorAttribute(html, image) == [i \in 1..Len(html) |-> InjectTag(html[i], image)]

InjectInit ==
    /\ Fresh
    /\ \E html \in Documents, image \in Images :
          probe = [fn |-> "inject", html |-> html, image |-> image]

InjectCall ==
    /\ probe.fn = "inject"
    /\ LET once == InjectOnerrorAttribute(probe.html, probe.image)
       IN probe' = [fn |-> "inject_done", html |-> probe.html, image |-> probe.image,
                    once |-> once, twice |-> InjectOnerrorAttribute(once, probe.image)]
    /\ UNCHANGED cmdVars

SpecInject == InjectInit /\ [][InjectCall]_vars

\* the onerror attributes of a tag
Handlers(tag) == (IF tag.onerror = "none" THEN 0 ELSE 1) + tag.injected

\* C29: without force_rewrite the injection is idempotent, a tag for the
\* image that already has an onerror attribute is returned unchanged, no tag
\* ends with two handlers, and a tag whose src names another image is
\* returned unchanged.
C29_InjectionIsIdempotent ==
    probe.fn = "inject_done" =>
        /\ probe.twice = probe.once
        /\ \A i \in 1..Len(probe.html) :
              LET tag == probe.html[i]
              IN /\ (tag.src = probe.image /\ tag.onerror # "none") => probe.once[i] = tag
                 /\ Handlers(probe.once[i]) <= 1
                 /\ tag.src # probe.image => probe.once[i] = tag

\* the part of C29 that holds: a second application changes nothing, and a
\* tag with a compact onerror attribute is returned unchanged
C29_SecondApplicationChangesNothing ==
    probe.fn = "inject_done" =>
        /\ probe.twice = probe.once
        /\ \A i \in 1..Len(probe.html) :
              probe.html[i].onerror = "compact" => probe.once[i] = probe.html[i]

\* C30: an event becomes completed only from processing, at the end of its
\* pass, and only with the commit made and its id recorded as commit_sha or,
\* when the pass modified no file, with the explanatory note recorded; a pass
\* that modified no file always ends completed, never failed.
C30_CompletedAfterCommitOrNothingToDo ==
    /\ [](step.kind = "finish" /\ step.modified = {} =>
            /\ Progress(step.ev).status = "completed"
            /\ Progress(step.ev).error = NoFilesModifiedNote)
    /\ [][\A e \in EventIds :
            (/\ lock'.events[e].progress.status = "completed"
             /\ lock.events[e].progress.status # "completed") =>
                /\ lock.events[e].progress.status = "processing"
                /\ step'.kind = "finish"
                /\ step'.ev = e
                /\ IF step'.modified = {}
                   THEN lock'.events[e].progress.error = NoFilesModifiedNote
                   ELSE /\ step'.commitCalled
                        /\ e \in thisRun'.commits
                        /\ heads'[cur] # heads[cur]
                        /\ lock'.events[e].progress.commit_sha = "sha"]_vars

\* C30 witness: a pass that modified files has ended with the commit made
\* and the event completed
C30_Witness ==
    /\ step.kind = "finish"
    /\ step.modified # {}
    /\ Progress(step.ev).status = "completed"
    /\ Progress(step.ev).commit_sha = "sha"
    /\ heads[cur] = wt

\* C31: when an unhandled error occurs at a step of an event (branch creation,
\* analysis, commit), the event ends failed with the error message recorded,
\* that step does not set processed, and the modified_files and file_status
\* persisted for the files handled before the error are left as they were.
C31_FailureKeepsPartialProgress ==
    [][\A e \in EventIds :
          (/\ pc \in {"event", "files"}
           /\ e = Head(queue)
           /\ lock'.events[e].progress.status = "failed") =>
              /\ lock'.events[e].progress.error \in
                    {"BranchError", "AnalysisError", "CommitError", "No changes to commit"}
              /\ lock'.events[e].progress.processed = lock.events[e].progress.processed
              /\ thisRun.eid = NoEvent => ~lock'.events[e].progress.processed
              /\ lock'.events[e].progress.modified_files
                    = lock.events[e].progress.modified_files
              /\ lock'.events[e].progress.file_status
                    = lock.events[e].progress.file_status]_vars

\* C31 witness: the commit failed after files had been handled and recorded
C31_Witness ==
    /\ step.kind = "finish"
    /\ step.commitCalled
    /\ Progress(step.ev).status = "failed"
    /\ Progress(step.ev).error = "CommitError"
    /\ Progress(step.ev).modified_files # {}
    /\ \E f \in Files : Progress(step.ev).file_status[f].status = "processed"

\* C32: if files were modified but the commit capability raises or reports
\* nothing to commit, the event ends failed with the error recorded, the step
\* leaves processed as it was (false stays false), records no commit_sha and
\* makes no commit.
C32_FailedCommitFailsTheEvent ==
    [][(/\ pc = "files"
        /\ todo = <<>>
        /\ step'.kind = "finish"
        /\ step'.modified # {}
        /\ (~step'.commitOk \/ ~IsDirty(wt, heads[cur]))) =>
            LET e == step'.ev
            IN /\ step'.commitCalled
               /\ lock'.events[e].progress.status = "failed"
               /\ lock'.events[e].progress.error \in {"CommitError", "No changes to commit"}
               /\ lock'.events[e].progress.processed = lock.events[e].progress.processed
               /\ lock'.events[e].progress.commit_sha = lock.events[e].progress.commit_sha
               /\ lock'.events[e].last_executed = lock.events[e].last_executed
               /\ heads' = heads
               /\ thisRun'.state = "returned" /\ ~thisRun'.ret]_vars

\* C32 witness: the commit failed for an event that was never processed before
C32_Witness ==
    /\ step.kind = "finish"
    /\ step.modified # {}
    /\ step.commitCalled
    /\ ~step.commitOk
    /\ Progress(step.ev).status = "failed"
    /\ ~Progress(step.ev).processed
    /\ Progress(step.ev).commit_sha = "None"

(***************************************************************************)
(* Candidate selection of _process_event: the allow-list, the per-event    *)
(* analysis cached in the ledger, the global analysis, or a fresh call of  *)
(* the analysis capability.  Two analyses of the code base may differ, so  *)
(* the analysis a run used can be told from its candidates.                *)
(***************************************************************************)
\* EventLock.analysis / ConfigLock.global_analysis is None
NoAnalysis == "none"

\* results analyze_codebase may return
AnalysisResults == {"a1", "a2"}

\* AnalysisResult.image_files, then AnalysisResult.text_files
AnalysisFiles(a) == IF a = "a1" THEN AnalysisImages \o AnalysisTexts ELSE <<FA>>

\* a file the allow-list may name that is neither an image nor a JSON file
FG == <<"anim", "gif">>

\* the --only lists tried
OnlyChoices == {<<>>, <<FA>>, <<FB, FA>>, <<FB, FG, FA>>}

\* a selection that prefers the global analysis to the event's own
SelectAnalysisGlobalFirst(only, evA, glA, fresh) ==
    IF only # <<>>
    THEN [cand |-> Candidates(only), invoked |-> 0, evA |-> evA]
    ELSE IF glA # NoAnalysis
    THEN [cand |-> AnalysisFiles(glA), invoked |-> 0, evA |-> evA]
    ELSE IF evA # NoAnalysis
    THEN [cand |-> AnalysisFiles(evA), invoked |-> 0, evA |-> evA]
    ELSE [cand |-> AnalysisFiles(fresh), invoked |-> 1, evA |-> fresh]

\* _process_event, "Get analysis data": the candidates, the number of calls of
\* analyze_codebase, and event.analysis afterwards
SelectAnalysis(only, evA, glA, fresh) ==
    IF only # <<>>
    THEN [cand |-> Candidates(only), invoked |-> 0, evA |-> evA]
    ELSE IF evA # NoAnalysis
    THEN [cand |-> AnalysisFiles(evA), invoked |-> 0, evA |-> evA]
    ELSE IF glA # NoAnalysis
    THEN [cand |-> AnalysisFiles(glA), invoked |-> 0, evA |-> evA]
    ELSE [cand |-> AnalysisFiles(fresh), invoked |-> 1, evA |-> fresh]

\* a ledger as analyze, process and clear may have left it
SelectInit ==
    /\ Fresh
    /\ \E evA \in AnalysisResults \cup {NoAnalysis},
          glA \in AnalysisResults \cup {NoAnalysis} :
          probe = [fn |-> "select", last |-> "none", n |-> 0,
                   evA |-> evA, glA |-> glA, before |-> evA, only |-> <<>>,
                   fresh |-> NoAnalysis, cand |-> <<>>, invoked |-> 0, calls |-> 0]

\* process --event-id e [--only ...]: the selection made by _process_event
SelectProcess(only, fresh) ==
    /\ probe.fn = "select"
    /\ probe.n < MaxOps
    /\ LET out == SelectAnalysis(only, probe.evA, probe.glA, fresh)
       IN probe' = [probe EXCEPT !.last = "process", !.n = @ + 1,
                                 !.before = probe.evA, !.only = only,
                                 !.fresh = fresh, !.evA = out.evA,
                                 !.cand = out.cand, !.invoked = out.invoked,
                                 !.calls = @ + out.invoked]
    /\ UNCHANGED cmdVars

\* analyze: the global analysis is made unless one is cached
SelectAnalyze(fresh) ==
    /\ probe.fn = "select"
    /\ probe.n < MaxOps
    /\ probe' = [probe EXCEPT !.last = "analyze", !.n = @ + 1,
                              !.glA = IF @ = NoAnalysis THEN fresh ELSE @]
    /\ UNCHANGED cmdVars

\* clear --event-id e: clear_event drops the event's analysis
SelectClear ==
    /\ probe.fn = "select"
    /\ probe.n < MaxOps
    /\ probe' = [probe EXCEPT !.last = "clear", !.n = @ + 1,
                              !.evA = NoAnalysis, !.calls = 0]
    /\ UNCHANGED cmdVars

NextSelect ==
    \/ \E only \in OnlyChoices, fresh \in AnalysisResults : SelectProcess(only, fresh)
    \/ \E fresh \in AnalysisResults : SelectAnalyze(fresh)
    \/ SelectClear

SpecSelect == SelectInit /\ [][NextSelect]_vars

\* C33: with an allow-list the analysis capability is not invoked and the
\* candidates are the allow-list's images followed by its JSON files;
\* otherwise the candidates come from the event's cached analysis if there is
\* one, else from the global cached analysis if there is one, else from one
\* call of the capability whose result is cached for the event, so that the
\* capability is called at most once for an event between two clears.
C33_CandidateSelection ==
    (probe.fn = "select" /\ probe.last = "process") =>
        /\ probe.calls <= 1
        /\ IF probe.only # <<>>
           THEN /\ probe.invoked = 0
                /\ probe.evA = probe.before
                /\ probe.cand = SelectSeq(probe.only, IsImagePath)
                                   \o SelectSeq(probe.only, IsTextPath)
           ELSE IF probe.before # NoAnalysis
           THEN /\ probe.invoked = 0
                /\ probe.evA = probe.before
                /\ probe.cand = AnalysisFiles(probe.before)
           ELSE IF probe.glA # NoAnalysis
           THEN /\ probe.invoked = 0
                /\ probe.cand = AnalysisFiles(probe.glA)
           ELSE /\ probe.invoked = 1
                /\ probe.evA = probe.fresh
                /\ probe.cand = AnalysisFiles(probe.fresh)

\* C33 witness: a second run of an event uses the analysis the first run
\* cached, although a global analysis made in between differs from it
C33_Witness ==
    /\ probe.fn = "select"
    /\ probe.last = "process"
    /\ probe.only = <<>>
    /\ probe.n = 3
    /\ probe.calls = 1
    /\ probe.invoked = 0
    /\ probe.glA \notin {NoAnalysis, probe.before}
    /\ probe.cand = AnalysisFiles(probe.before)

(***************************************************************************)
(* _process_images over candidates of several formats.  The analysis lists *)
(* gif, svg and ico files as images; ImageAgent supports png, jpg, jpeg    *)
(* and webp.                                                               *)
(***************************************************************************)
FS == <<"icon", "svg">>

\* analysis.image_files as _find_image_files may return them
ImageCandidateLists == {<<FG, FA>>, <<FA, FS, FG>>, <<FS>>}

ImageCandidates == {FA, FG, FS}

ImagePaths == ImageCandidates \cup {GetBackupPath(f) : f \in ImageCandidates}
                              \cup {LegacyBackupPath(f) : f \in ImageCandidates}

\* ImageAgent.is_supported_format
IsSupportedFormat(p) == HasSuffix(p) /\ p[Len(p)] \in {"png", "jpg", "jpeg", "webp"}

\* the checkout before the pass: any candidate may be absent, any candidate
\* may carry a backup of the legacy scheme
ImagesInit ==
    /\ Fresh
    /\ \E cands \in ImageCandidateLists, present \in SUBSET ImageCandidates,
          legacy \in SUBSET ImageCandidates, force \in BOOLEAN :
          probe = [fn |-> "images", todo |-> cands, force |-> force,
                   disk |-> [p \in ImagePaths |->
                               IF p \in present
                                  \/ (\E f \in legacy : p = LegacyBackupPath(f))
                               THEN Original ELSE NoFile],
                   file_status |-> [f \in ImageCandidates |-> NoStatus],
                   modified |-> {}, transformed |-> {}, backed |-> {},
                   last |-> [file |-> <<>>, outcome |-> "none"]]

\* one iteration of the loop of _process_images
ImagesStep(outcome) ==
    /\ probe.fn = "images"
    /\ probe.todo # <<>>
    /\ LET p == Head(probe.todo)
           bak == GetBackupPath(p)
           d == probe.disk
           fs == probe.file_status
           rest == [probe EXCEPT !.todo = Tail(@)]
       IN IF SkipsAsProcessed(d, p, probe.force)
          THEN /\ outcome = "ok"
               /\ probe' = [rest EXCEPT !.file_status[p] = FileStatus("processed"),
                                        !.last = [file |-> p, outcome |-> "skip"]]
          ELSE IF d[p] = NoFile
          THEN /\ outcome = "ok"
               /\ probe' = [rest EXCEPT !.file_status[p] = FileStatus("missing"),
                                        !.last = [file |-> p, outcome |-> "missing"]]
          ELSE IF outcome = "transform_fail"
          THEN probe' = [rest EXCEPT !.disk[bak] = d[p],
                                     !.backed = @ \cup {p},
                                     !.transformed = @ \cup {p},
                                     !.file_status[p] = FailedFileStatus("TransformError"),
                                     !.last = [file |-> p, outcome |-> outcome]]
          ELSE probe' = [rest EXCEPT !.disk[bak] = d[p],
                                     !.disk[p] = Transform(d[p]),
                                     !.backed = @ \cup {p},
                                     !.transformed = @ \cup {p},
                                     !.modified = @ \cup {p, bak},
                                     !.file_status[p] = FileStatus("processed"),
                                     !.last = [file |-> p, outcome |-> "ok"]]
    /\ UNCHANGED cmdVars

NextImages == \E outcome \in {"ok", "transform_fail"} : ImagesStep(outcome)

SpecImages == ImagesInit /\ [][NextImages]_vars

\* C34: the image-transform capability is never invoked on a candidate whose
\* extension is not png, jpg, jpeg or webp; such a candidate, when it is on
\* disk and not skipped for its backup, is recorded as unsupported, and no
\* backup is created for it.
C34_UnsupportedFormatsAreGated ==
    probe.fn = "images" =>
        \A f \in ImageCandidates :
            ~IsSupportedFormat(f) =>
                /\ f \notin probe.transformed
                /\ f \notin probe.backed
                /\ probe.disk[GetBackupPath(f)] = NoFile
                /\ (probe.last.file = f /\ probe.last.outcome \notin {"skip", "missing"}) =>
                      probe.file_status[f].status = "unsupported"

\* what the pass does with a candidate of an unsupported format: it is handled
\* like any other candidate
C34_UnsupportedFormatsAreHandledLikeOthers ==
    (probe.fn = "images" /\ probe.last.outcome \in {"ok", "transform_fail"}) =>
        LET f == probe.last.file
        IN /\ f \in probe.transformed
           /\ f \in probe.backed
           /\ probe.disk[GetBackupPath(f)] # NoFile
           /\ probe.file_status[f].status \in {"processed", "skipped"}

(***************************************************************************)
(* process started in a checkout that holds manual, uncommitted edits.     *)
(***************************************************************************)
\* the working tree with local edits: a tracked file changed, an untracked
\* file added, or both
LocalTrees ==
    {[BaseTree EXCEPT ![FA] = Transform(Original)],
     [BaseTree EXCEPT ![FC] = Original],
     [BaseTree EXCEPT ![FA] = Transform(Original), ![FC] = Original]}

\* the paths whose bytes differ from the committed ones
LocalChanges(tree, head) == {p \in AllPaths : tree[p] # head[p]}

LocalInit ==
    /\ today \in 1..MaxDay
    /\ heads = [b \in Branches |-> BaseTree]
    /\ wt \in LocalTrees
    /\ branches = {BaseBranch}
    /\ cur = BaseBranch
    /\ lock = CreateNewLock
    /\ pc = "idle"
    /\ queue = <<>>
    /\ optOnly = <<>>
    /\ optForce = FALSE
    /\ todo = <<>>
    /\ modified = {}
    /\ nCmds = 0
    /\ nFaults = 0
    /\ step = NoStep
    /\ thisRun = NoRun
    /\ prevRun = NoRun
    /\ prevLock = CreateNewLock
    /\ probe = [fn |-> "local", start |-> wt]

\* process invocations only
NextLocal ==
    \/ \E a \in ProcessArgs : ProcessStart(a[1], a[2][1], a[2][2])
    \/ \E outcome \in {"ok", "branch_fail", "analysis_fail"} : ProcessEventBegin(outcome)
    \/ \E outcome \in {"ok", "backup_fail", "transform_fail"} : ProcessFileStep(outcome)
    \/ \E commitOk \in BOOLEAN : ProcessEventFinish(commitOk)

SpecLocal == LocalInit /\ [][NextLocal]_vars

\* C35: the uncommitted local changes present in the checkout when a process
\* invocation starts are in the working tree on the event branch before file
\* processing begins (no reapply can fail here: the event branch is created
\* from the base branch the changes were made on).
C35_LocalChangesAreReapplied ==
    (/\ probe.fn = "local"
     /\ nCmds = 1
     /\ pc = "files"
     /\ Len(thisRun.attempted) = 1
     /\ todo = Candidates(optOnly)) =>
        /\ cur = BranchName(Head(queue))
        /\ \A p \in LocalChanges(probe.start, BaseTree) : wt[p] = probe.start[p]

\* what the code does: after clone_or_update the working tree of the first
\* event is the committed tree of its branch
C35_FirstEventStartsFromCommittedTree ==
    (/\ probe.fn = "local"
     /\ nCmds = 1
     /\ pc = "files"
     /\ Len(thisRun.attempted) = 1
     /\ todo = Candidates(optOnly)) =>
        /\ cur = BranchName(Head(queue))
        /\ wt = heads[cur]
        /\ Progress(Head(queue)).status = "processing"

(***************************************************************************)
(* Two processes, one per repository, saving into the same workspace-keyed *)
(* ledger file.  save_lock reads the file, sets its own entry and writes   *)
(* the whole map back; nothing serializes the two steps of one process     *)
(* against those of the other.                                             *)
(***************************************************************************)
\* the updates a process makes to its ledger, one save_lock after each
RacePatches ==
    <<[status |-> "processing"], [status |-> "completed", processed |-> TRUE],
      [pushed |-> TRUE]>>

RECURSIVE RaceLedger(_)
\* the ledger in memory after the first v updates
RaceLedger(v) ==
    IF v = 0 THEN NewStoreLedger
    ELSE [RaceLedger(v - 1) EXCEPT !.lock = UpdateEventProgress(@, "e1", RacePatches[v])]

\* a process between two saves
IdleWriter(v) == [at |-> "idle", raw |-> NoLedgerFile, ver |-> v, saved |-> v]

RaceInit ==
    /\ Fresh
    /\ \E file \in {NoLedgerFile,
                    [exists |-> TRUE, entries |-> [k \in RepoKeys |-> Entry(RaceLedger(0))]]} :
          probe = [fn |-> "race", file |-> file,
                   w |-> [k \in RepoKeys |-> IdleWriter(0)],
                   overlap |-> FALSE]

\* update_event_progress and the first half of save_lock: the fields are set
\* and the map is read from the file ({} when there is no file)
RaceReadStep(k) ==
    /\ probe.fn = "race"
    /\ probe.w[k].at = "idle"
    /\ probe.w[k].ver < Len(RacePatches)
    /\ probe' = [probe EXCEPT !.w[k].at = "merge",
                              !.w[k].ver = @ + 1,
                              !.w[k].raw = probe.file]
    /\ UNCHANGED cmdVars

\* the second half of save_lock: raw[repo_key] is set and raw is written
RaceWriteStep(k) ==
    /\ probe.fn = "race"
    /\ probe.w[k].at = "merge"
    /\ probe' = [probe EXCEPT
                    !.file = WriteMerged(probe.w[k].raw, k, RaceLedger(probe.w[k].ver)),
                    !.w[k] = IdleWriter(probe.w[k].ver),
                    !.overlap = @ \/ probe.w[k].raw # probe.file]
    /\ UNCHANGED cmdVars

NextRace ==
    \/ \E k \in RepoKeys : RaceReadStep(k)
    \/ \E k \in RepoKeys : RaceWriteStep(k)

SpecRace == RaceInit /\ [][NextRace]_vars

\* the entry of repository k in the file is not the ledger k saved last
LostUpdate(k) ==
    /\ probe.w[k].saved > 0
    /\ probe.file.entries[k] # Entry(RaceLedger(probe.w[k].saved))

\* C36: concurrent saves for different repositories into the workspace-keyed
\* file can lose an update (the witness); an entry saved last is absent or
\* stale only after a save whose read and write were separated by another
\* process's write.
C36_LostUpdateNeedsInterleaving ==
    probe.fn = "race" =>
        \A k \in RepoKeys : LostUpdate(k) => probe.overlap

\* C36 witness: both processes are between saves and the file lacks, or holds
\* an old version of, the entry one of them saved last
C36_Witness ==
    /\ probe.fn = "race"
    /\ \A k \in RepoKeys : probe.w[k].at = "idle"
    /\ \E k \in RepoKeys : LostUpdate(k)

\* C36 witness: the lost entry is absent from the file
C36_WitnessAbsent ==
    /\ probe.fn = "race"
    /\ \A k \in RepoKeys : probe.w[k].at = "idle"
    /\ \E k \in RepoKeys : probe.w[k].saved > 0 /\ ~probe.file.entries[k].present

\* C37: no step of a process run removes a path from an event's persisted
\* modified_files; only restore and clear remove entries.
C37_ModifiedFilesOnlyGrow ==
    [][(pc \in {"event", "files"}) =>
          (\A e \in EventIds :
              lock.events[e].progress.modified_files
                 \subseteq lock'.events[e].progress.modified_files)]_vars

\* the steps of a process run before the final ledger update only add to
\* modified_files
C37_FileStepsOnlyAdd ==
    [][(pc \in {"event", "files"} /\ step'.kind # "finish") =>
          (\A e \in EventIds :
              lock.events[e].progress.modified_files
                 \subseteq lock'.events[e].progress.modified_files)]_vars

\* C38: whenever an event is completed with a commit recorded by the latest
\* run, its error field is empty.
C38_CompletedWithCommitHasNoError ==
    (/\ step.kind = "finish"
     /\ step.commitCalled
     /\ Progress(step.ev).status = "completed") =>
        Progress(step.ev).error = "None"

\* the final update of a committed run leaves the error field as it found it
C38_CommitKeepsErrorField ==
    [][(/\ pc = "files"
        /\ step'.kind = "finish"
        /\ step'.commitCalled
        /\ lock'.events[step'.ev].progress.status = "completed") =>
            lock'.events[step'.ev].progress.error
               = lock.events[step'.ev].progress.error]_vars

(***************************************************************************)
(* Commands run on a checkout and a ledger that an earlier, fault-free     *)
(* `process --event-id e1` left behind: e1 is completed and not pushed.    *)
(***************************************************************************)
\* the working tree after that run: hero.png transformed, its backup written
DoneTree ==
    [BaseTree EXCEPT ![FA] = Transform(Original), ![GetBackupPath(FA)] = Original]

\* the ledger after that run
DoneLock ==
    [UpdateEventAnalysis(
        UpdateEventProgress(CreateNewLock, "e1",
            [status |-> "completed", processed |-> TRUE, branch_created |-> TRUE,
             commit_sha |-> "sha", modified_files |-> {FA, GetBackupPath(FA)},
             file_status |-> [f \in Files |->
                                IF f = FC THEN FileStatus("missing")
                                ELSE FileStatus("processed")]]), "e1")
     EXCEPT !.events["e1"].last_executed = TRUE]

\* the state of the commands after that run
AfterCompletedRun ==
    /\ heads = [b \in Branches |-> IF b = "e1" THEN DoneTree ELSE BaseTree]
    /\ wt = DoneTree
    /\ branches = {BaseBranch, "e1"}
    /\ cur = "e1"
    /\ lock = DoneLock
    /\ pc = "idle"

RerunInit ==
    /\ today \in 1..MaxDay
    /\ AfterCompletedRun
    /\ queue = <<>>
    /\ optOnly = <<>>
    /\ optForce = FALSE
    /\ todo = <<>>
    /\ modified = {}
    /\ nCmds = 0
    /\ nFaults = 0
    /\ step = NoStep
    /\ thisRun = NoRun
    /\ prevRun = NoRun
    /\ prevLock = DoneLock
    /\ probe = [fn |-> "rerun"]

SpecRerun == RerunInit /\ [][Next]_vars

\* the start of the re-run model is a state the commands reach from a fresh clone
RerunStartIsReached ==
    /\ AfterCompletedRun
    /\ nCmds = 1
    /\ thisRun.cmd = "process"
    /\ thisRun.state = "returned"
    /\ ~thisRun.faults

\* C39: the push phase never pushes a branch or requests a pull request for
\* an event whose status is failed or processing.
C39_PushSkipsFailedEvents ==
    [][(pc = "push" /\ step'.kind = "push" /\ step'.requested) =>
          lock.events[step'.ev].progress.status \notin {"failed", "processing"}]_vars

\* C39, for the selection: push selects no event whose status is failed or
\* processing.
C39_PushSelectsNoFailedEvent ==
    thisRun.cmd = "push" =>
        \A e \in Range(thisRun.evs) :
            prevLock.events[e].progress.status \notin {"failed", "processing"}

\* C40: the push phase pushes a branch and requests a pull request only for
\* events that have a recorded commit; an event completed with no modified
\* file and no commit is not pushed.
C40_PushNeedsCommit ==
    [][(pc = "push" /\ step'.kind = "push" /\ step'.requested) =>
          lock.events[step'.ev].progress.commit_sha # "None"]_vars

\* what push does with an event completed without a commit: it is selected
\* like any processed event
C40_PushSelectsByFlagsOnly ==
    (thisRun.cmd = "push" /\ thisRun.state = "running") =>
        \A e \in EventIds :
            (e \in Range(thisRun.evs)) <=>
                (prevLock.events[e].progress.processed
                    /\ ~prevLock.events[e].progress.pushed)

====
